---- MODULE Spec2Model ----
(***************************************************************************)
(* BookLogger: the identifier normalizer (src/src/utils.py), the lookup    *)
(* orchestrator (src/src/services.py) with its provider adapters           *)
(* (src/src/lookups/*.py), the retailer search and de-dup engine           *)
(* (src/scraper.py), and the bibliographic text search (src/app.py).       *)
(*                                                                         *)
(* Text is a sequence of one-character strings, so that cleaning,          *)
(* stripping, digit runs and check digits are computed character by        *)
(* character.  Python's None is a value of its own for each type it can    *)
(* stand in for (NoneStr, NoneInt, NoneSeq, NoneRec); a JSON object is a   *)
(* function whose DOMAIN is the set of keys present.                       *)
(***************************************************************************)
EXTENDS Integers, Sequences, FiniteSets, TLC

VARIABLES
    \* ---- BookLookupService.by_isbn (src/src/services.py)
    raw,          \* the argument of by_isbn
    isbndb_key,   \* self.isbndb_key: TRUE when an access key is configured
    pc,           \* position inside by_isbn
    s,            \* the local s (the identifier being resolved)
    rec,          \* the local rec (the retailer record, once web_fallback answered)
    webrec,       \* rec as web_fallback returned it, before the merge loop
    enrich,       \* the local enrich
    result,       \* the value returned, once pc = "done"
    calls,        \* adapter functions called so far, in call order
    net,          \* number of HTTP requests issued so far
    \* ---- search_saxo_by_title (src/scraper.py)
    query,        \* the argument query
    max_results,  \* the argument max_results
    spc,          \* position inside search_saxo_by_title
    links,        \* the local links
    step,         \* number of fetches done in the current pass-1 or per-ISBN loop
    isbns,        \* the list _gbooks_fetch_isbns returned
    isbn_i,       \* index in isbns of the ISBN being looked up
    new_links,    \* the list `out` of the running _try_saxo_by_isbn
    pos,          \* number of elements of links the scrape loop has taken
    out,          \* the local out: the accepted records
    seen_urls,    \* the local seen_urls
    seen_isbn,    \* the local seen_isbn
    scraped,      \* the scrape_saxo calls so far: the argument, the valid ISBN-13
                  \* of the result, whether the result was appended to out
    scrape_result,\* what the latest scrape_saxo call returned
    probed,       \* the arguments of the _try_saxo_by_isbn calls so far, in call order
    author_out,   \* what search_saxo_by_author returned
    \* ---- google_books_search (src/app.py)
    gb_query,     \* the argument query
    limit,        \* the argument limit
    prefer_lang,  \* the argument prefer_lang
    gpc,          \* position inside google_books_search
    attempts,     \* the local attempts
    lang,         \* the argument lang of the running _run_attempts
    at_i,         \* index in attempts of the attempt _run_attempts sends next
    results,      \* the local results of the running _run_attempts
    gb_items,     \* the local items
    requests,     \* the _search_gbooks calls so far: q, langRestrict, what came back
    gb_out,       \* the value google_books_search returned
    \* ---- the ISBN functions of utils.py, scraper.py and app.py
    isbn_arg,     \* the argument the functions are applied to
    valid,        \* validate_isbn13(isbn_arg), per copy that has been applied
    to_isbn10,    \* isbn13_to_isbn10(isbn_arg), per copy that has been applied
    \* ---- extract_isbn13_from_text (utils.py) and _extract_isbn13_from_text (scraper.py)
    text_arg,     \* the text the functions are applied to
    extracted,    \* what each function returned, per function that has been applied
    \* ---- add_book and delete_ids (src/src/repository.py), add_row and
    \* ---- delete_rows (src/app.py), called by two sessions on one worksheet
    layer,        \* which of the two modules the sessions run
    sheet,        \* the data rows of the worksheet, top to bottom
    rop,          \* per session: the function called
    rpc,          \* per session: position inside it
    nops,         \* per session: the calls started so far
    df,           \* per session: the local df
    book_id,      \* per session: book.id, row["index"]
    attempt,      \* per session: the loop variable of the running write helper
    wlog,         \* per session: how each ws.update / ws.append_row call of the
                  \* running write helper ended
    slept         \* per session: the time.sleep arguments of the running write helper

lookupVars == <<raw, isbndb_key, pc, s, rec, webrec, enrich, result, calls, net>>

searchVars == <<query, max_results, spc, links, step, isbns, isbn_i, new_links,
                pos, out, seen_urls, seen_isbn, scraped, scrape_result, probed, author_out>>

gbVars == <<gb_query, limit, prefer_lang, gpc, attempts, lang, at_i, results,
            gb_items, requests, gb_out>>

isbnVars == <<isbn_arg, valid, to_isbn10>>

extractVars == <<text_arg, extracted>>

repoVars == <<layer, sheet, rop, rpc, nops, df, book_id, attempt, wlog, slept>>

vars == <<lookupVars, searchVars, gbVars, isbnVars, extractVars, repoVars>>

(***************************************************************************)
(* Python values                                                           *)
(***************************************************************************)
NoneStr == "<None>"          \* None where a str is expected
NoneInt == -1                \* None where an int is expected
NoneSeq == <<"<None>">>      \* None where a text or a list of str is expected
NoneRefs == <<[none |-> TRUE]>>  \* None where a list of dicts is expected
NoneRec == [none |-> TRUE]   \* None where a dict is expected
EmptyDict == <<>>            \* the dict {}

\* d.get(k, def)
Get(d, k, def) == IF k \in DOMAIN d THEN d[k] ELSE def

\* Truth value of an Optional[dict]: None and {} are false.
TruthyRec(r) == r # NoneRec /\ DOMAIN r # {}

\* ", ".join(names)
RECURSIVE Join(_)
Join(names) ==
    IF names = <<>> THEN ""
    ELSE IF Len(names) = 1 THEN names[1]
    ELSE names[1] \o ", " \o Join(Tail(names))

\* ", ".join(v or [])
JoinOrEmpty(v) == IF v = NoneSeq THEN "" ELSE Join(v)

(***************************************************************************)
(* Identifier normalizer (src/src/utils.py)                                *)
(***************************************************************************)
DigitChars == <<"0", "1", "2", "3", "4", "5", "6", "7", "8", "9">>

DigitSet == {DigitChars[i] : i \in 1..10}

IsDigit(c) == c \in DigitSet

\* int(d) for every digit character d
DigitValues == [c \in DigitSet |-> (CHOOSE i \in 1..10 : DigitChars[i] = c) - 1]

DigitVal(c) == DigitValues[c]

\* The text of a sequence of digit values.
Txt(ds) == [i \in 1..Len(ds) |-> DigitChars[ds[i] + 1]]

\* str.isdigit(): non-empty and every character a digit
isdigit(t) == Len(t) > 0 /\ \A i \in 1..Len(t) : IsDigit(t[i])

\* the letters the inputs use, in lower and in upper case
LowerLetters == <<"a", "b", "d", "e", "i", "n", "s", "x">>

UpperLetters == <<"A", "B", "D", "E", "I", "N", "S", "X">>

LetterAt(c, from) == CHOOSE i \in 1..Len(from) : from[i] = c

UpperOf == [c \in {LowerLetters[i] : i \in 1..Len(LowerLetters)} |->
               UpperLetters[LetterAt(c, LowerLetters)]]

LowerOf == [c \in {UpperLetters[i] : i \in 1..Len(UpperLetters)} |->
               LowerLetters[LetterAt(c, UpperLetters)]]

\* str.upper() on the characters the inputs use
UpperChar(c) == IF c \in DOMAIN UpperOf THEN UpperOf[c] ELSE c

upper(t) == [i \in 1..Len(t) |-> UpperChar(t[i])]

IsIsbnChar(c) == IsDigit(c) \/ c = "X"

\* re.sub(r"[^0-9X]", "", (s or "").upper())
clean_isbn(t) == SelectSeq(upper(t), IsIsbnChar)

IsSpace(c) == c = " "

\* str.strip()
RECURSIVE strip(_)
strip(t) ==
    IF t = <<>> THEN t
    ELSE IF IsSpace(t[1]) THEN strip(Tail(t))
    ELSE IF IsSpace(t[Len(t)]) THEN strip(SubSeq(t, 1, Len(t) - 1))
    ELSE t

\* sum(int(d) * (1 if i % 2 == 0 else 3) for i, d in enumerate(isbn13[:12])),
\* taken over the first n characters (i is 0-based in the code, 1-based here)
RECURSIVE Weighted13(_, _)
Weighted13(t, n) ==
    IF n = 0 THEN 0
    ELSE Weighted13(t, n - 1) + DigitVal(t[n]) * (IF (n - 1) % 2 = 0 THEN 1 ELSE 3)

\* validate_isbn13 with check = 10 - (total % 10), the outer % 10 left out
validate_isbn13NoOuterMod(isbn13) ==
    IF ~(isdigit(isbn13) /\ Len(isbn13) = 13) THEN FALSE
    ELSE LET total == Weighted13(isbn13, 12)
             check == 10 - (total % 10)
         IN  check = DigitVal(isbn13[13])

\* validate_isbn13 (utils.py copy)
validate_isbn13(isbn13) ==
    IF ~(isdigit(isbn13) /\ Len(isbn13) = 13) THEN FALSE
    ELSE LET total == Weighted13(isbn13, 12)
             check == (10 - (total % 10)) % 10
         IN  check = DigitVal(isbn13[13])

\* sum of i * int(ch) over the first n characters, i from 1
RECURSIVE Weighted10(_, _)
Weighted10(t, n) ==
    IF n = 0 THEN 0 ELSE Weighted10(t, n - 1) + n * DigitVal(t[n])

validate_isbn10(isbn10) ==
    IF Len(isbn10) # 10 THEN FALSE
    ELSE IF \E i \in 1..9 : ~IsDigit(isbn10[i]) THEN FALSE
    ELSE LET check == Weighted10(isbn10, 9) % 11
             last == isbn10[10]
         IN  (last = "X" /\ check = 10) \/ (IsDigit(last) /\ check = DigitVal(last))

\* re.findall(r"\d{13}", s): the non-overlapping 13-digit matches, left to right
RECURSIVE FindAll13(_, _)
FindAll13(t, i) ==
    IF i + 12 > Len(t) THEN <<>>
    ELSE IF \A j \in i..(i + 12) : IsDigit(t[j])
         THEN <<SubSeq(t, i, i + 12)>> \o FindAll13(t, i + 13)
         ELSE FindAll13(t, i + 1)

\* x.startswith(("978", "979"))
Starts97x(t) ==
    /\ Len(t) >= 3
    /\ t[1] = "9" /\ t[2] = "7" /\ t[3] \in {"8", "9"}

NotStarts97x(t) == ~Starts97x(t)

\* sorted(candidates, key=lambda x: (not x.startswith(("978", "979")),)): stable
SortByPrefix(cands) == SelectSeq(cands, Starts97x) \o SelectSeq(cands, NotStarts97x)

RECURSIVE FirstValid13(_)
FirstValid13(cands) ==
    IF cands = <<>> THEN NoneSeq
    ELSE IF validate_isbn13(cands[1]) THEN cands[1]
    ELSE FirstValid13(Tail(cands))

extract_isbn13_from_text(t) ==
    IF t = <<>> THEN NoneSeq
    ELSE FirstValid13(SortByPrefix(FindAll13(t, 1)))

(***************************************************************************)
(* Provider responses.  An HTTP exchange ends in one of: the request       *)
(* raising (timeout or transport error), a non-success status, a success   *)
(* status with a body that does not parse, or a success status with a      *)
(* parsed JSON body.                                                       *)
(***************************************************************************)
ApiOutcomes(bodies) ==
    {[kind |-> "timeout"], [kind |-> "not_ok"], [kind |-> "bad_json"]}
        \cup {[kind |-> "ok", body |-> b] : b \in bodies}

\* volumeInfo objects of the bibliographic API
GoogleInfos ==
    { [title |-> "Y", authors |-> <<"Z">>, pageCount |-> 300, publisher |-> "GP",
       imageLinks |-> [thumbnail |-> "gimg"]],
      [title |-> "Y", authors |-> NoneSeq, pageCount |-> NoneInt, imageLinks |-> NoneRec],
      EmptyDict }

GoogleBodies ==
    {EmptyDict, [items |-> <<>>], [items |-> <<EmptyDict>>]}
        \cup {[items |-> <<[volumeInfo |-> i]>>] : i \in GoogleInfos}

GoogleOutcomes == ApiOutcomes(GoogleBodies)

\* x or 0
OrZero(x) == IF x = NoneInt THEN 0 ELSE x

\* x or {}
OrEmptyDict(x) == IF x = NoneRec THEN EmptyDict ELSE x

\* google_books._query has no try/except: requests.get raising, or r.json()
\* raising on an unparseable body, leaves the function as an exception.
google_raises(o) == o.kind \in {"timeout", "bad_json"}

\* google_books._query followed by by_isbn's rec["isbn"] = isbn, for an
\* exchange that did not raise
google_by_isbn(o, isbn) ==
    IF o.kind # "ok" THEN NoneRec
    ELSE LET items == Get(o.body, "items", <<>>) IN
         IF items = <<>> THEN NoneRec
         ELSE LET info == Get(items[1], "volumeInfo", EmptyDict) IN
              [ title          |-> Get(info, "title", ""),
                author         |-> JoinOrEmpty(Get(info, "authors", <<>>)),
                thumbnail      |-> Get(OrEmptyDict(Get(info, "imageLinks", EmptyDict)),
                                       "thumbnail", ""),
                page_count     |-> OrZero(Get(info, "pageCount", NoneInt)),
                published_date |-> Get(info, "publishedDate", ""),
                publisher      |-> Get(info, "publisher", ""),
                categories     |-> JoinOrEmpty(Get(info, "categories", <<>>)),
                language       |-> Get(info, "language", ""),
                description    |-> Get(info, "description", ""),
                source         |-> "google",
                isbn           |-> isbn ]

\* response bodies of the commercial catalog
IsbndbBodies ==
    { [book |-> [title |-> "BT", authors |-> <<"BA">>, pages |-> 200]],
      [book |-> [title |-> NoneStr, authors |-> NoneSeq, pages |-> NoneInt]],
      EmptyDict }

IsbndbOutcomes == ApiOutcomes(IsbndbBodies)

\* isbndb.by_isbn: every exception is caught and gives None
isbndb_by_isbn(key, o, isbn) ==
    IF ~key THEN NoneRec
    ELSE IF o.kind # "ok" THEN NoneRec
    ELSE LET data == Get(o.body, "book", EmptyDict) IN
         [ isbn           |-> isbn,
           title          |-> Get(data, "title", ""),
           author         |-> JoinOrEmpty(Get(data, "authors", <<>>)),
           publisher      |-> Get(data, "publisher", ""),
           language       |-> Get(data, "language", ""),
           page_count     |-> Get(data, "pages", 0),
           published_date |-> Get(data, "date_published", ""),
           thumbnail      |-> Get(data, "image", ""),
           categories     |-> JoinOrEmpty(Get(data, "subjects", <<>>)),
           description    |-> Get(data, "overview", ""),
           source         |-> "isbndb" ]

\* HTTP requests isbndb.by_isbn issues
isbndb_requests(key) == IF key THEN 1 ELSE 0

MaxAuthors == 2

AuthorRef(i) == [key |-> "/authors/" \o ToString(i)]

AuthorName(i) == "Author" \o ToString(i)

\* response bodies of the library-commons record endpoint
OpenLibraryBodies ==
    { [title |-> "OT", authors |-> [i \in 1..n |-> AuthorRef(i)],
       number_of_pages |-> 100, publishers |-> <<"OP">>] : n \in 0..MaxAuthors }
        \cup { [authors |-> NoneRefs, number_of_pages |-> NoneInt, publishers |-> <<>>],
               EmptyDict }

OpenLibraryOutcomes == ApiOutcomes(OpenLibraryBodies)

\* outcome of one author sub-lookup: a name, a non-success status, an exception
SubOutcomes == {"ok", "not_ok", "timeout"}

\* data.get("authors", []) or []
AuthorRefs(o) ==
    IF o.kind # "ok" THEN <<>>
    ELSE LET a == Get(o.body, "authors", <<>>) IN IF a = NoneRefs THEN <<>> ELSE a

\* the names appended by the author loop over refs 1..n, when no sub-lookup raised
RECURSIVE CollectAuthors(_, _)
CollectAuthors(subs, n) ==
    IF n = 0 THEN <<>>
    ELSE CollectAuthors(subs, n - 1)
            \o (IF subs[n] = "ok" THEN <<AuthorName(n)>> ELSE <<>>)

\* openlibrary.by_isbn: the whole body is inside one try/except, so an
\* exception in any author sub-lookup gives None for the record
openlibrary_by_isbn(o, subs, isbn) ==
    IF o.kind # "ok" THEN NoneRec
    ELSE IF \E i \in 1..Len(subs) : subs[i] = "timeout" THEN NoneRec
    ELSE LET data == o.body
             publishers == Get(data, "publishers", <<>>)
         IN  [ isbn           |-> isbn,
               title          |-> Get(data, "title", ""),
               author         |-> Join(CollectAuthors(subs, Len(subs))),
               thumbnail      |-> "",
               page_count     |-> OrZero(Get(data, "number_of_pages", NoneInt)),
               published_date |-> Get(data, "publish_date", ""),
               publisher      |-> JoinOrEmpty(publishers),
               categories     |-> "",
               language       |-> "",
               description    |-> "",
               source         |-> "openlibrary" ]

\* index of the first author sub-lookup that raises, or Len(subs) when none does
FirstRaise(subs) ==
    IF \E i \in 1..Len(subs) : subs[i] = "timeout"
    THEN CHOOSE i \in 1..Len(subs) :
            subs[i] = "timeout" /\ \A j \in 1..(i - 1) : subs[j] # "timeout"
    ELSE Len(subs)

\* HTTP requests openlibrary.by_isbn issues
openlibrary_requests(o, subs) ==
    IF o.kind = "ok" THEN 1 + FirstRaise(subs) ELSE 1

\* the sub-lookup outcomes possible for an exchange: one per author reference
SubOutcomeSeqs(o) == [1..Len(AuthorRefs(o)) -> SubOutcomes]

(***************************************************************************)
(* Retailer-HTML lookups by ISBN (src/src/lookups/web_fallback.py).  A     *)
(* fetched page is represented by what the selectors and regular           *)
(* expressions of the adapter read off it: the og:title and og:image       *)
(* contents, the page count, publisher and language phrases of its text,   *)
(* and the author phrase of its h1.                                        *)
(***************************************************************************)
BS4_READY == TRUE

WebPages ==
    { [title |-> "WT", image |-> "", pages |-> 0, publisher |-> "", lang |-> "", author |-> ""],
      [title |-> "", image |-> "wimg", pages |-> 120, publisher |-> "", lang |-> "da", author |-> "X"],
      [title |-> "", image |-> "", pages |-> 0, publisher |-> "WP", lang |-> "", author |-> ""],
      [title |-> "", image |-> "", pages |-> 90, publisher |-> "", lang |-> "da", author |-> "X"] }

\* number of regional search URLs adlibris() tries in turn
AdlibrisUrls == 4

\* adlibris(isbn): `fails` search URLs give no soup before one does; the
\* record is built from the first page that was fetched (or the product page
\* its first product link leads to)
adlibris(fails, page, isbn) ==
    IF ~BS4_READY \/ fails >= AdlibrisUrls THEN NoneRec
    ELSE [ isbn |-> isbn, title |-> page.title, author |-> "",
           thumbnail |-> page.image, page_count |-> page.pages,
           published_date |-> "", publisher |-> page.publisher,
           categories |-> "", language |-> page.lang,
           description |-> "", source |-> "web(adlibris)" ]

adlibris_requests(fails, follow) ==
    IF fails >= AdlibrisUrls THEN AdlibrisUrls
    ELSE fails + 1 + (IF follow THEN 1 ELSE 0)

\* saxo(isbn): one search page, then the product page its first link leads to
saxo(ok, page, isbn) ==
    IF ~BS4_READY \/ ~ok THEN NoneRec
    ELSE [ isbn |-> isbn, title |-> page.title, author |-> page.author,
           thumbnail |-> page.image, page_count |-> page.pages,
           published_date |-> "", publisher |-> page.publisher,
           categories |-> "", language |-> "", description |-> "",
           source |-> "web(saxo)" ]

\* imusic(isbn)
imusic(ok, page, isbn) ==
    IF ~BS4_READY \/ ~ok THEN NoneRec
    ELSE [ isbn |-> isbn, title |-> page.title, author |-> "",
           thumbnail |-> page.image, page_count |-> page.pages,
           published_date |-> "", publisher |-> page.publisher,
           categories |-> "", language |-> "", description |-> "",
           source |-> "web(imusic)" ]

\* requests of saxo() and imusic(): the search page, and the product page if linked
site_requests(ok, follow) == IF ok /\ follow THEN 2 ELSE 1

\* web_fallback's test: rec and (title or thumbnail or publisher)
Usable(r) ==
    /\ TruthyRec(r)
    /\ (r.title # "" \/ r.thumbnail # "" \/ r.publisher # "")

(***************************************************************************)
(* Lookup orchestrator (src/src/services.py)                               *)
(***************************************************************************)
\* Python truth value of the field k holding v: "", 0 and None are false
Falsy(k, v) ==
    IF k = "page_count" THEN v \in {0, NoneInt}
    ELSE IF k = "isbn" THEN v \in {<<>>, NoneSeq}
    ELSE v \in {"", NoneStr}

\* MergeFill with the emptiness test dropped: every non-empty enrichment
\* value is written, also over a populated field
MergeOverwrite(r, e) ==
    LET filled == {k \in DOMAIN e : ~Falsy(k, e[k])}
    IN  [k \in DOMAIN r \cup filled |-> IF k \in filled THEN e[k] ELSE r[k]]

\* MergeFill with the emptiness test narrowed to the empty string: a zero
\* page count is not taken for empty, so it is never filled
MergeFillTextOnly(r, e) ==
    LET filled == {k \in DOMAIN e :
                      /\ ~Falsy(k, e[k])
                      /\ (k \in DOMAIN r => (k # "page_count" /\ Falsy(k, r[k])))}
    IN  [k \in DOMAIN r \cup filled |-> IF k \in filled THEN e[k] ELSE r[k]]

\* for k, v in enrich.items(): if not rec.get(k) and v: rec[k] = v
MergeFill(r, e) ==
    LET filled == {k \in DOMAIN e :
                      /\ ~Falsy(k, e[k])
                      /\ (k \in DOMAIN r => Falsy(k, r[k]))}
    IN  [k \in DOMAIN r \cup filled |-> IF k \in filled THEN e[k] ELSE r[k]]

\* lines 13-17 of by_isbn: strip, extract from text unless already a bare
\* 10- or 13-digit string, then clean
NormalizeRaw(r) ==
    LET s0 == strip(r)
        s1 == IF ~(isdigit(s0) /\ Len(s0) \in {10, 13})
              THEN LET found == extract_isbn13_from_text(s0)
                   IN  IF found # NoneSeq THEN found ELSE s0
              ELSE s0
    IN  clean_isbn(s1)

\* lines 18-19 of by_isbn: the identifiers that get past the two early returns
Accepted(t) ==
    /\ ~(Len(t) = 13 /\ ~validate_isbn13(t))
    /\ Len(t) \in {10, 13}

Base12 == <<9, 7, 8, 0, 4, 3, 9, 0, 2, 3, 5, 2>>

Base9 == <<0, 4, 3, 9, 0, 2, 3, 5, 2>>

\* the arguments by_isbn is called with
RawInputs ==
    { Txt(Base12 \o <<d>>) : d \in 0..9 }
        \cup { Txt(Base9 \o <<d>>) : d \in 0..9 }
        \cup { Txt(Base9) \o <<"X">>, Txt(Base9) \o <<"x">>,
               <<>>, <<" ">>, Txt(Base9), Txt(Base12),
               <<" ">> \o Txt(Base12 \o <<8>>) \o <<" ">>,
               <<"a">> \o Txt(Base12 \o <<8>>),
               Txt(<<9, 7, 8>>) \o <<"-">> \o Txt(<<0>>) \o <<"-">> \o Txt(<<4, 3, 9>>)
                   \o <<"-">> \o Txt(<<0, 2, 3, 5, 2>>) \o <<"-">> \o Txt(<<8>>),
               Txt(<<9, 7, 8>>) \o <<"-">> \o Txt(<<0>>) \o <<"-">> \o Txt(<<4, 3, 9>>)
                   \o <<"-">> \o Txt(<<0, 2, 3, 5, 2>>) \o <<"-">> \o Txt(<<8>>)
                   \o <<" ">> \o Txt(<<5, 1, 2, 9, 9>>),
               Txt(Base12 \o <<8>>) \o <<" ">> \o Txt(<<5, 1, 2, 9, 9>>),
               Txt(<<0>>) \o <<"-">> \o Txt(<<4, 3, 9>>) \o <<"-">> \o Txt(<<0, 2, 3, 5, 2>>)
                   \o <<"-">> \o Txt(<<7>>) }

\* no by_isbn call
LookupIdle ==
    /\ raw = <<>> /\ isbndb_key = FALSE /\ pc = "idle" /\ s = <<>>
    /\ rec = NoneRec /\ webrec = NoneRec /\ enrich = NoneRec /\ result = NoneRec
    /\ calls = <<>> /\ net = 0

\* no search_saxo_by_title call
SearchIdle ==
    /\ query = <<>> /\ max_results = 0 /\ spc = "idle"
    /\ links = <<>> /\ step = 0 /\ isbns = <<>> /\ isbn_i = 0 /\ new_links = <<>>
    /\ pos = 0 /\ out = <<>> /\ seen_urls = {} /\ seen_isbn = {}
    /\ scraped = <<>> /\ scrape_result = NoneRec /\ probed = <<>>
    /\ author_out = <<>>

\* no google_books_search call
GbIdle ==
    /\ gb_query = <<>> /\ limit = 0 /\ prefer_lang = NoneStr /\ gpc = "idle"
    /\ attempts = <<>> /\ lang = NoneStr /\ at_i = 0 /\ results = <<>>
    /\ gb_items = <<>> /\ requests = <<>> /\ gb_out = <<>>

\* no extraction function applied
ExtractIdle ==
    /\ text_arg = <<>> /\ extracted = <<>>

\* the sessions that call the repository
Sessions == {"s1", "s2"}

\* no repository call
RepoIdle ==
    /\ layer = "none"
    /\ sheet = <<>>
    /\ rop = [p \in Sessions |-> "none"]
    /\ rpc = [p \in Sessions |-> "idle"]
    /\ nops = [p \in Sessions |-> 0]
    /\ df = [p \in Sessions |-> <<>>]
    /\ book_id = [p \in Sessions |-> 0]
    /\ attempt = [p \in Sessions |-> 0]
    /\ wlog = [p \in Sessions |-> <<>>]
    /\ slept = [p \in Sessions |-> <<>>]

\* no ISBN function applied
IsbnIdle ==
    /\ isbn_arg = <<>> /\ valid = <<>> /\ to_isbn10 = <<>>

LookupInit ==
    /\ raw \in RawInputs
    /\ isbndb_key \in BOOLEAN
    /\ pc = "start"
    /\ s = <<>>
    /\ rec = NoneRec
    /\ webrec = NoneRec
    /\ enrich = NoneRec
    /\ result = NoneRec
    /\ calls = <<>>
    /\ net = 0
    /\ query = <<>> /\ max_results = 0 /\ spc = "idle"
    /\ links = <<>> /\ step = 0 /\ isbns = <<>> /\ isbn_i = 0 /\ new_links = <<>>
    /\ pos = 0 /\ out = <<>> /\ seen_urls = {} /\ seen_isbn = {}
    /\ scraped = <<>> /\ scrape_result = NoneRec /\ probed = <<>>
    /\ author_out = <<>>
    /\ GbIdle /\ IsbnIdle /\ ExtractIdle /\ RepoIdle

\* an entry of the call log: the adapter function, the part of by_isbn that
\* called it ("lookup": lines 21-30, "enrich": line 33), what it returned, and
\* whether it raised instead of returning
Call(fn, phase, ret) == [fn |-> fn, phase |-> phase, ret |-> ret, raised |-> FALSE]

Raised(fn, phase) == [fn |-> fn, phase |-> phase, ret |-> NoneRec, raised |-> TRUE]

\* return v
Return(v) == pc' = "done" /\ result' = v

\* by_isbn, lines 12-19
Normalize ==
    /\ pc = "start"
    /\ IF raw = <<>>
       THEN Return(NoneRec) /\ s' = s
       ELSE LET t == NormalizeRaw(raw) IN
            /\ s' = t
            /\ IF Accepted(t)
               THEN pc' = "google" /\ result' = result
               ELSE Return(NoneRec)
    /\ UNCHANGED <<raw, isbndb_key, rec, webrec, enrich, calls, net>>
    /\ UNCHANGED <<searchVars, gbVars, isbnVars, extractVars, repoVars>>

\* LookupGoogle without line 22's return: the record is dropped and the
\* next provider is asked
LookupGoogleNoReturn ==
    /\ pc = "google"
    /\ \E o \in GoogleOutcomes :
        /\ net' = net + 1
        /\ IF google_raises(o)
           THEN /\ calls' = Append(calls, Raised("google_books", "lookup"))
                /\ pc' = "raised" /\ result' = result
           ELSE /\ calls' = Append(calls, Call("google_books", "lookup", google_by_isbn(o, s)))
                /\ pc' = "isbndb" /\ result' = result
    /\ UNCHANGED <<raw, isbndb_key, s, rec, webrec, enrich>>
    /\ UNCHANGED <<searchVars, gbVars, isbnVars, extractVars, repoVars>>

\* by_isbn, lines 21-22
LookupGoogle ==
    /\ pc = "google"
    /\ \E o \in GoogleOutcomes :
        /\ net' = net + 1
        /\ IF google_raises(o)
           THEN /\ calls' = Append(calls, Raised("google_books", "lookup"))
                /\ pc' = "raised" /\ result' = result
           ELSE LET r == google_by_isbn(o, s) IN
                /\ calls' = Append(calls, Call("google_books", "lookup", r))
                /\ IF TruthyRec(r) THEN Return(r)
                   ELSE pc' = "isbndb" /\ result' = result
    /\ UNCHANGED <<raw, isbndb_key, s, rec, webrec, enrich>>
    /\ UNCHANGED <<searchVars, gbVars, isbnVars, extractVars, repoVars>>

\* by_isbn, lines 24-25
LookupIsbndb ==
    /\ pc = "isbndb"
    /\ \E o \in IsbndbOutcomes :
        /\ net' = net + isbndb_requests(isbndb_key)
        /\ LET r == isbndb_by_isbn(isbndb_key, o, s) IN
           /\ calls' = Append(calls, Call("isbndb", "lookup", r))
           /\ IF TruthyRec(r) THEN Return(r)
              ELSE pc' = "openlibrary" /\ result' = result
    /\ UNCHANGED <<raw, isbndb_key, s, rec, webrec, enrich>>
    /\ UNCHANGED <<searchVars, gbVars, isbnVars, extractVars, repoVars>>

\* by_isbn, lines 27-28
LookupOpenLibrary ==
    /\ pc = "openlibrary"
    /\ \E o \in OpenLibraryOutcomes : \E subs \in SubOutcomeSeqs(o) :
        /\ net' = net + openlibrary_requests(o, subs)
        /\ LET r == openlibrary_by_isbn(o, subs, s) IN
           /\ calls' = Append(calls, Call("openlibrary", "lookup", r))
           /\ IF TruthyRec(r) THEN Return(r)
              ELSE pc' = "adlibris" /\ result' = result
    /\ UNCHANGED <<raw, isbndb_key, s, rec, webrec, enrich>>
    /\ UNCHANGED <<searchVars, gbVars, isbnVars, extractVars, repoVars>>

\* what by_isbn does with the record one retailer function gave, inside
\* web_fallback's loop (line 30): a usable record ends the loop and starts the
\* enrichment; after the last retailer, web_fallback returns None and so does by_isbn
AfterRetailer(r, next) ==
    IF Usable(r)
    THEN /\ rec' = r /\ webrec' = r
         /\ pc' = "enrich" /\ result' = result
    ELSE /\ UNCHANGED <<rec, webrec>>
         /\ IF next = "none" THEN Return(NoneRec)
            ELSE pc' = next /\ result' = result

FallbackAdlibris ==
    /\ pc = "adlibris"
    /\ \E fails \in 0..AdlibrisUrls, follow \in BOOLEAN, page \in WebPages :
        /\ calls' = Append(calls, Call("adlibris", "lookup", adlibris(fails, page, s)))
        /\ net' = net + adlibris_requests(fails, follow)
        /\ AfterRetailer(adlibris(fails, page, s), "saxo")
    /\ UNCHANGED <<raw, isbndb_key, s, enrich>>
    /\ UNCHANGED <<searchVars, gbVars, isbnVars, extractVars, repoVars>>

FallbackSaxo ==
    /\ pc = "saxo"
    /\ \E ok \in BOOLEAN, follow \in BOOLEAN, page \in WebPages :
        /\ calls' = Append(calls, Call("saxo", "lookup", saxo(ok, page, s)))
        /\ net' = net + site_requests(ok, follow)
        /\ AfterRetailer(saxo(ok, page, s), "imusic")
    /\ UNCHANGED <<raw, isbndb_key, s, enrich>>
    /\ UNCHANGED <<searchVars, gbVars, isbnVars, extractVars, repoVars>>

FallbackImusic ==
    /\ pc = "imusic"
    /\ \E ok \in BOOLEAN, follow \in BOOLEAN, page \in WebPages :
        /\ calls' = Append(calls, Call("imusic", "lookup", imusic(ok, page, s)))
        /\ net' = net + site_requests(ok, follow)
        /\ AfterRetailer(imusic(ok, page, s), "none")
    /\ UNCHANGED <<raw, isbndb_key, s, enrich>>
    /\ UNCHANGED <<searchVars, gbVars, isbnVars, extractVars, repoVars>>

\* by_isbn, line 33, left operand of `or`
EnrichGoogle ==
    /\ pc = "enrich"
    /\ \E o \in GoogleOutcomes :
        /\ net' = net + 1
        /\ IF google_raises(o)
           THEN /\ calls' = Append(calls, Raised("google_books", "enrich"))
                /\ pc' = "raised" /\ enrich' = enrich
           ELSE LET e == google_by_isbn(o, s) IN
                /\ calls' = Append(calls, Call("google_books", "enrich", e))
                /\ enrich' = e
                /\ pc' = IF TruthyRec(e) THEN "merge" ELSE "enrich_ol"
    /\ UNCHANGED <<raw, isbndb_key, s, rec, webrec, result>>
    /\ UNCHANGED <<searchVars, gbVars, isbnVars, extractVars, repoVars>>

\* by_isbn, line 33, right operand of `or`: evaluated only when the left is falsy
EnrichOpenLibrary ==
    /\ pc = "enrich_ol"
    /\ \E o \in OpenLibraryOutcomes : \E subs \in SubOutcomeSeqs(o) :
        /\ calls' = Append(calls, Call("openlibrary", "enrich", openlibrary_by_isbn(o, subs, s)))
        /\ net' = net + openlibrary_requests(o, subs)
        /\ enrich' = openlibrary_by_isbn(o, subs, s)
    /\ pc' = "merge"
    /\ UNCHANGED <<raw, isbndb_key, s, rec, webrec, result>>
    /\ UNCHANGED <<searchVars, gbVars, isbnVars, extractVars, repoVars>>

\* by_isbn, lines 34-38
Merge ==
    /\ pc = "merge"
    /\ LET merged == IF TruthyRec(enrich) THEN MergeFill(rec, enrich) ELSE rec IN
       /\ rec' = merged
       /\ Return(merged)
    /\ UNCHANGED <<raw, isbndb_key, s, webrec, enrich, calls, net>>
    /\ UNCHANGED <<searchVars, gbVars, isbnVars, extractVars, repoVars>>

LookupNext ==
    \/ Normalize
    \/ LookupGoogle
    \/ LookupIsbndb
    \/ LookupOpenLibrary
    \/ FallbackAdlibris
    \/ FallbackSaxo
    \/ FallbackImusic
    \/ EnrichGoogle
    \/ EnrichOpenLibrary
    \/ Merge

LookupSpec == LookupInit /\ [][LookupNext]_vars

(***************************************************************************)
(* Properties of the lookup orchestrator                                   *)
(***************************************************************************)
\* the adapter functions in the priority order of the providers
ProviderOrder == <<"google_books", "isbndb", "openlibrary", "adlibris", "saxo", "imusic">>

Retailers == {"adlibris", "saxo", "imusic"}

InLookup(c) == c.phase = "lookup"

InEnrich(c) == c.phase = "enrich"

LookupCalls == SelectSeq(calls, InLookup)

EnrichCalls == SelectSeq(calls, InEnrich)

\* the call gave a result: a record, which for a retailer function must also
\* carry a title, a thumbnail or a publisher
GaveResult(c) ==
    /\ ~c.raised
    /\ IF c.fn \in Retailers THEN Usable(c.ret) ELSE TruthyRec(c.ret)

\* C1: the providers are called strictly in the order google_books, isbndb,
\* openlibrary, adlibris, saxo, imusic; no provider is called after one gave a
\* result; the value returned is none when no call gave a result, the record of
\* the (last) call that did for the three API providers, and that retailer's
\* record for a retailer; when google_books gives a record it is the only call
\* made and its record is returned.
C1_PriorityShortCircuit ==
    LET lc == LookupCalls IN
    /\ Len(lc) <= Len(ProviderOrder)
    /\ \A i \in 1..Len(lc) : lc[i].fn = ProviderOrder[i]
    /\ \A i \in 1..(Len(lc) - 1) : ~GaveResult(lc[i]) /\ ~lc[i].raised
    /\ \A i \in 1..Len(calls) : calls[i].phase = "enrich" =>
            /\ calls[i].fn \notin Retailers \cup {"isbndb"}
            /\ \A j \in i..Len(calls) : calls[j].phase = "enrich"
    /\ pc = "done" /\ lc # <<>> =>
        LET last == lc[Len(lc)] IN
        IF ~GaveResult(last) THEN result = NoneRec /\ Len(lc) = Len(ProviderOrder)
        ELSE IF last.fn \in Retailers THEN webrec = last.ret /\ result.source = last.ret.source
        ELSE result = last.ret /\ calls = lc
    /\ (lc # <<>> /\ GaveResult(lc[1])) =>
        /\ Len(calls) = 1
        /\ pc = "done" /\ result = lc[1].ret /\ result.source = "google"

\* C1 witness: the bibliographic API answered with a record, which was returned
C1_Witness ==
    /\ pc = "done"
    /\ Len(calls) = 1
    /\ calls[1].fn = "google_books" /\ GaveResult(calls[1])
    /\ result.title = "Y"

\* the identifier is a syntactically valid ISBN-13 or ISBN-10
ValidIsbnSyntax(t) == validate_isbn13(t) \/ validate_isbn10(t)

\* C2: once by_isbn has normalized an input that is not a syntactically valid
\* ISBN (wrong length, bad ISBN-13 check digit, bad ISBN-10 check character),
\* it has returned none and no adapter was called and no request issued.
C2_InvalidNeverLooksUp ==
    (pc # "start" /\ ~ValidIsbnSyntax(NormalizeRaw(raw))) =>
        /\ pc = "done" /\ result = NoneRec
        /\ calls = <<>> /\ net = 0

\* C3: by_isbn never ends in an exception, whatever the providers answer.
C3_NeverRaises == pc # "raised"

\* the record an enrichment call gave, none if the provider was not asked
EnrichRet(fn) ==
    IF \E i \in 1..Len(EnrichCalls) : EnrichCalls[i].fn = fn
    THEN (CHOOSE c \in {EnrichCalls[i] : i \in 1..Len(EnrichCalls)} : c.fn = fn).ret
    ELSE NoneRec

\* the value of field k in record e, "empty" when e is no record
HasValue(e, k) == TruthyRec(e) /\ ~Falsy(k, e[k])

\* C4 as first stated: after a retailer-only result both google_books and
\* openlibrary have been consulted, and every field empty in the retailer
\* record holds the google_books value if non-empty, else the openlibrary value
\* if non-empty.
C4_EnrichFromBoth ==
    (pc = "done" /\ webrec # NoneRec) =>
        /\ \E i \in 1..Len(EnrichCalls) : EnrichCalls[i].fn = "google_books"
        /\ \E i \in 1..Len(EnrichCalls) : EnrichCalls[i].fn = "openlibrary"
        /\ \A k \in DOMAIN webrec : Falsy(k, webrec[k]) =>
            result[k] = IF HasValue(EnrichRet("google_books"), k)
                        THEN EnrichRet("google_books")[k]
                        ELSE IF HasValue(EnrichRet("openlibrary"), k)
                        THEN EnrichRet("openlibrary")[k]
                        ELSE webrec[k]

\* C4 (amended): after a retailer-only result google_books is consulted first
\* and openlibrary only when google_books gave no record; every field empty in
\* the retailer record holds the value of that one enrichment record (the
\* google_books record if there is one, else the openlibrary record) when it is
\* non-empty there, and is left as it was otherwise.
C4_EnrichFromFirst ==
    (pc = "done" /\ webrec # NoneRec) =>
        LET ec == EnrichCalls
            e  == ec[Len(ec)].ret
        IN  /\ Len(ec) \in {1, 2}
            /\ ec[1].fn = "google_books"
            /\ Len(ec) = 1 <=> TruthyRec(ec[1].ret)
            /\ Len(ec) = 2 => ec[2].fn = "openlibrary"
            /\ \A k \in DOMAIN webrec : Falsy(k, webrec[k]) =>
                   result[k] = IF HasValue(e, k) THEN e[k] ELSE webrec[k]

\* C4 witness: the retailer record had no title and no page count, google_books
\* gave no record on the enrichment call, and the openlibrary record filled both
C4_Witness ==
    /\ pc = "done" /\ webrec # NoneRec
    /\ webrec.title = "" /\ webrec.page_count = 0
    /\ Len(EnrichCalls) = 2
    /\ result.title = "OT" /\ result.page_count = 100

\* C5: every field that is non-empty in the retailer record (isbn and source
\* among them) has the same value in the returned record; the retailer record
\* (title "", author "X") merged with (title "Y", author "Z") gives title "Y",
\* author "X".
C5_FillOnly ==
    (pc = "done" /\ webrec # NoneRec) =>
        /\ \A k \in DOMAIN webrec : ~Falsy(k, webrec[k]) => result[k] = webrec[k]
        /\ DOMAIN result = DOMAIN webrec
        /\ (/\ webrec.title = "" /\ webrec.author = "X"
            /\ TruthyRec(enrich) /\ enrich.title = "Y" /\ enrich.author = "Z")
           => (result.title = "Y" /\ result.author = "X")

\* C5 witness: the merge of (title "", author "X") with (title "Y", author "Z")
C5_Witness ==
    /\ pc = "done" /\ webrec # NoneRec
    /\ webrec.title = "" /\ webrec.author = "X"
    /\ TruthyRec(enrich) /\ enrich.title = "Y" /\ enrich.author = "Z"
    /\ result.title = "Y" /\ result.author = "X"

(***************************************************************************)
(* URLs (src/scraper.py).  A URL or href is a record of its parts; its     *)
(* path is the sequence of its segments, each preceded by one "/", so a    *)
(* trailing slash is a last segment with the empty text.  A segment is     *)
(* either plain text, or  pre + tag + code + post  where tag is "bog_" in  *)
(* some casing and code a run of characters (an ISBN slug).  A relative    *)
(* href has no scheme and no host.                                         *)
(***************************************************************************)
Plain(text) == [text |-> text]

Slug(pre, tag, code) == [pre |-> pre, tag |-> tag, code |-> code]

IsSlug(seg) == "code" \in DOMAIN seg

Url(scheme, host, path, q) == [scheme |-> scheme, host |-> host, path |-> path, query |-> q]

\* str.lower() on the host names the pages use
LowerHost(h) == IF h = "WWW.Saxo.DK" THEN "www.saxo.dk" ELSE h

\* str.lower() on the slug tags the pages use
LowerTag(g) == IF g = "BOG_" THEN "bog_" ELSE g

_SAXO_HOSTS == {"saxo.com", "www.saxo.com", "saxo.dk", "www.saxo.dk"}

\* len(p.path) > 1
PathLongerThanOne(path) ==
    \/ Len(path) >= 2
    \/ Len(path) = 1 /\ path[1] # Plain("")

\* norm.endswith("/"), norm being scheme://host + path
EndsWithSlash(path) == Len(path) >= 1 /\ path[Len(path)] = Plain("")

\* _normalize_url: force https, lower-case the host and map the retailer's
\* hosts to www.saxo.com, drop query and fragment, remove ONE trailing slash
_normalize_url(u) ==
    LET host0 == LowerHost(u.host)
        host  == IF host0 \in _SAXO_HOSTS THEN "www.saxo.com" ELSE host0
        path  == IF EndsWithSlash(u.path) /\ PathLongerThanOne(u.path)
                 THEN SubSeq(u.path, 1, Len(u.path) - 1)
                 ELSE u.path
    IN  Url("https", host, path, "")

\* the segment matches (?:^|/)_?bog_(97[89]\d{10})(?:$|/) in path.lower().
\* A "/" precedes every segment and "/" or the end follows it, so the segment
\* must be exactly [_]bog_<13 digits starting 978 or 979>.
SlugMatches(seg) ==
    /\ IsSlug(seg)
    /\ seg.pre \in {"", "_"}
    /\ LowerTag(seg.tag) = "bog_"
    /\ Len(seg.code) = 13 /\ isdigit(seg.code) /\ Starts97x(seg.code)

\* _isbn_from_saxo_url: the first match of the pattern, if it validates
_isbn_from_saxo_url(u) ==
    IF \E i \in 1..Len(u.path) : SlugMatches(u.path[i])
    THEN LET i == CHOOSE j \in 1..Len(u.path) :
                     /\ SlugMatches(u.path[j])
                     /\ \A k \in 1..(j - 1) : ~SlugMatches(u.path[k])
         IN  IF validate_isbn13(u.path[i].code) THEN u.path[i].code ELSE NoneSeq
    ELSE NoneSeq

\* isbn13_to_isbn10 with the check digit of the ISBN-13 carried over
isbn13_to_isbn10KeepCheck(isbn13) ==
    IF ~(Len(isbn13) >= 3 /\ isbn13[1] = "9" /\ isbn13[2] = "7" /\ isbn13[3] = "8"
         /\ validate_isbn13(isbn13))
    THEN NoneSeq
    ELSE Append(SubSeq(isbn13, 4, 12), isbn13[13])

\* isbn13_to_isbn10 (scraper.py copy)
isbn13_to_isbn10(isbn13) ==
    IF ~(Len(isbn13) >= 3 /\ isbn13[1] = "9" /\ isbn13[2] = "7" /\ isbn13[3] = "8"
         /\ validate_isbn13(isbn13))
    THEN NoneSeq
    ELSE LET core == SubSeq(isbn13, 4, 12)
             remainder == Weighted10(core, 9) % 11
             check == IF remainder = 10 THEN "X" ELSE DigitChars[remainder + 1]
         IN  Append(core, check)

(***************************************************************************)
(* Text of scraped records                                                 *)
(***************************************************************************)
\* str.lower() on the letters the pages use
LowerChar(c) == IF c \in DOMAIN LowerOf THEN LowerOf[c] ELSE c

lower(t) == [i \in 1..Len(t) |-> LowerChar(t[i])]

\* re.sub(r"\s+", " ", s): every run of spaces becomes one space
RECURSIVE CollapseSpaces(_)
CollapseSpaces(t) ==
    IF Len(t) <= 1 THEN t
    ELSE IF IsSpace(t[1]) /\ IsSpace(t[2]) THEN CollapseSpaces(Tail(t))
    ELSE <<t[1]>> \o CollapseSpaces(Tail(t))

\* normalize_text: unescape and NFKC leave the characters used here as they
\* are; whitespace runs collapse to one space; the ends are stripped
normalize_text(t) == IF t = <<>> THEN <<>> ELSE strip(CollapseSpaces(t))

(***************************************************************************)
(* Retailer search: link discovery (src/scraper.py)                        *)
(***************************************************************************)
I1 == Txt(Base12 \o <<8>>)

I2 == Txt(<<9, 7, 8, 0, 1, 4, 0, 4, 4, 9, 1, 3, 6>>)

\* 13 digits with a wrong check digit
Ibad == Txt(Base12 \o <<0>>)

\* the hrefs found on the retailer's pages: three spellings of one product
\* page whose slug carries a title before _bog_<isbn>, a product page whose
\* slug is _bog_<isbn>, a product page under /bog/, a search link, another page
Hrefs ==
    { Url("", "", <<Plain("dk"), Slug("dune_", "bog_", I1)>>, ""),
      Url("http", "WWW.Saxo.DK", <<Plain("dk"), Slug("dune_", "bog_", I1), Plain("")>>, "ref=1"),
      Url("", "", <<Plain("dk"), Slug("dune_", "bog_", I1), Plain(""), Plain("")>>, ""),
      Url("https", "www.saxo.com", <<Plain("dk"), Slug("_", "bog_", I1)>>, ""),
      Url("", "", <<Plain("dk"), Plain("bog"), Plain("emma")>>, ""),
      Url("", "", <<Plain("dk"), Plain("s")>>, "q=dune"),
      Url("", "", <<Plain("dk"), Plain("about")>>, "") }

MaxAnchors == 2

\* the anchors of one fetched page, in document order
AnchorLists == UNION {[1..n -> Hrefs] : n \in 0..MaxAnchors}

\* _soup(url): no soup, or the parsed page with its anchors
SoupOutcomes == {[ok |-> FALSE]} \cup {[ok |-> TRUE, anchors |-> a] : a \in AnchorLists}

\* _soup(url) for the retailer's search by an ISBN: no soup, no product link,
\* or the link of the one product found, in one of two spellings
IsbnSoupOutcomes ==
    {[ok |-> FALSE], [ok |-> TRUE, anchors |-> <<>>]}
        \cup {[ok |-> TRUE, anchors |-> <<h>>] :
                h \in { Url("", "", <<Plain("dk"), Slug("dune_", "bog_", I1)>>, ""),
                        Url("", "", <<Plain("dk"), Slug("dune_", "bog_", I1), Plain(""), Plain("")>>, "") }}

\* "s?q=" in href
IsSearchHref(h) ==
    /\ Len(h.path) >= 1
    /\ h.path[Len(h.path)] = Plain("s")
    /\ h.query = "q=dune"

\* re.search(r"/bog(?:-p)?/", href) or "_bog_" in href or href.endswith(".aspx")
IsProductHref(h) ==
    \/ \E i \in 1..(Len(h.path) - 1) : h.path[i] \in {Plain("bog"), Plain("bog-p")}
    \/ \E i \in 1..Len(h.path) :
           IsSlug(h.path[i]) /\ h.path[i].tag = "bog_" /\ h.path[i].pre \in {"_", "dune_"}
    \/ Len(h.path) >= 1 /\ h.path[Len(h.path)] = Plain("x.aspx") /\ h.query = ""

\* href.startswith("/")
IsRelative(h) == h.scheme = "" /\ h.host = "" /\ Len(h.path) >= 1

\* "https://www.saxo.com" + href
Absolute(h) == IF IsRelative(h) THEN Url("https", "www.saxo.com", h.path, h.query) ELSE h

\* out.append(l) for every l of ls not yet in out, in order
RECURSIVE AppendNew(_, _)
AppendNew(acc, ls) ==
    IF ls = <<>> THEN acc
    ELSE AppendNew(IF \E i \in 1..Len(acc) : acc[i] = ls[1] THEN acc ELSE Append(acc, ls[1]),
                   Tail(ls))

\* the product links of a page, normalized, in document order, with repeats
ProductLinks(anchors) ==
    LET IsWanted(h) == h # Url("", "", <<>>, "") /\ ~IsSearchHref(h) /\ IsProductHref(h)
        wanted == SelectSeq(anchors, IsWanted)
    IN  [i \in 1..Len(wanted) |-> _normalize_url(Absolute(wanted[i]))]

\* _collect_saxo_links_from_html
_collect_saxo_links_from_html(soup) ==
    IF ~soup.ok THEN <<>> ELSE AppendNew(<<>>, ProductLinks(soup.anchors))

\* number of search URL shapes _try_saxo_search_pages fetches
SearchShapes == 3

(***************************************************************************)
(* Retailer search: ISBN harvest and per-ISBN lookup (src/scraper.py)      *)
(***************************************************************************)
\* want=10 in search_saxo_by_title's call of _gbooks_fetch_isbns
GbWant == 10

\* maxResults of one harvest request
GbPageSize == 40

\* the harvest loop runs while start < 80
GbMaxStart == 80

Ident(type, identifier) == [type |-> type, identifier |-> identifier]

Item(idents) == [volumeInfo |-> [industryIdentifiers |-> idents]]

HyphenatedI1 ==
    Txt(<<9, 7, 8>>) \o <<"-">> \o Txt(<<0, 4, 3, 9, 0, 2, 3, 5, 2>>) \o <<"-">> \o Txt(<<8>>)

\* the items of one harvest response that carry identifiers
GbItemLists ==
    { <<>>,
      <<Item(<<Ident("ISBN_10", Txt(Base9 \o <<1>>)), Ident("ISBN_13", I1)>>)>>,
      <<Item(<<Ident("ISBN_13", Ibad)>>), EmptyDict, Item(<<Ident("ISBN_13", HyphenatedI1)>>)>> }

\* one harvest exchange; `full` says the response held GbPageSize items (those
\* beyond `items` carrying no identifiers)
GbPages ==
    {[kind |-> "timeout"], [kind |-> "not_ok"], [kind |-> "bad_json"]}
        \cup {[kind |-> "ok", items |-> l, full |-> f] : l \in GbItemLists, f \in BOOLEAN}

\* the identifiers of the items, in the order the two nested loops visit them
RECURSIVE Identifiers(_)
Identifiers(items) ==
    IF items = <<>> THEN <<>>
    ELSE Get(Get(items[1], "volumeInfo", EmptyDict), "industryIdentifiers", <<>>)
            \o Identifiers(Tail(items))

\* the two nested loops of _gbooks_fetch_isbns over one response: every
\* ISBN_13 identifier that cleans to 13 characters and is new is appended,
\* until `want` values are held
RECURSIVE AddIsbns(_, _, _)
AddIsbns(acc, idents, want) ==
    IF idents = <<>> \/ Len(acc) >= want THEN acc
    ELSE LET v == clean_isbn(idents[1].identifier)
             take == /\ idents[1].type = "ISBN_13"
                     /\ Len(v) = 13
                     /\ \A i \in 1..Len(acc) : acc[i] # v
         IN  AddIsbns(IF take THEN Append(acc, v) ELSE acc, Tail(idents), want)

\* _gbooks_fetch_isbns has no try/except around requests.get and r.json()
gbooks_raises(pg) == pg.kind \in {"timeout", "bad_json"}

\* the harvest loop ends after this response: a non-success status, no items
\* or fewer than GbPageSize items (both ~full), enough values, or start >= 80
HarvestEnds(pg, found, start) ==
    \/ pg.kind # "ok"
    \/ Len(found) >= GbWant
    \/ ~pg.full
    \/ start + GbPageSize >= GbMaxStart

\* "bog_" in final
ContainsBog(u) == \E i \in 1..Len(u.path) : IsSlug(u.path[i]) /\ u.path[i].tag = "bog_"

\* the two direct product paths _try_saxo_by_isbn probes for an ISBN
DirectUrl(n, isbn) ==
    Url("https", "www.saxo.com",
        <<Plain("dk"), Slug(IF n = 1 THEN "" ELSE "_", "bog_", isbn)>>, "")

\* _get(url) for a direct path: no response, or a response whose url is the
\* requested one or the one a redirect led to
DirectOutcomes(url) ==
    {[ok |-> FALSE]}
        \cup {[ok |-> TRUE, url |-> u] :
                u \in {url,
                       Url("http", "saxo.com",
                           <<Plain("dk"), Slug("dune_", "bog_", I1), Plain("")>>, "ref=1"),
                       Url("https", "www.saxo.com", <<Plain("dk"), Plain("about")>>, "")}}

\* fetches of _try_saxo_by_isbn: two search pages, then two direct paths
ProbeSearches == 2

ProbeFetches == 4

(***************************************************************************)
(* Retailer search: scraping and de-duplication (src/scraper.py)           *)
(***************************************************************************)
\* a product page as scrape_saxo reads it: the cleaned title, the author, the
\* isbn of its structured data and its text (the other fields take no part in
\* the search)
PageOutcomes ==
    {[kind |-> "no_soup"], [kind |-> "raise"]}
        \cup {[kind |-> "page", title |-> p[1], author |-> p[2], isbn |-> p[3], text |-> p[4]] :
                p \in { <<<<"D">>, <<"E", "A">>, HyphenatedI1, <<>>>>,
                        <<<<"d">>, <<"E", "A">>, Ibad, <<"A">> \o I1>>,
                        <<<<>>, <<>>, <<>>, <<>>>>,
                        <<<<"E">>, <<"A">>, <<>>, <<"E", " ">> \o I2>> }}

\* \w for the characters the pages use
IsWordChar(c) == IsDigit(c) \/ c \in DOMAIN UpperOf \/ c \in DOMAIN LowerOf \/ c = "_"

\* re.findall(r"\b(\d{13})\b", text): the 13-digit runs that stand as words
RECURSIVE Words13(_, _)
Words13(t, i) ==
    IF i + 12 > Len(t) THEN <<>>
    ELSE IF /\ \A j \in i..(i + 12) : IsDigit(t[j])
            /\ (i = 1 \/ ~IsWordChar(t[i - 1]))
            /\ (i + 12 = Len(t) \/ ~IsWordChar(t[i + 13]))
         THEN <<SubSeq(t, i, i + 12)>> \o Words13(t, i + 13)
         ELSE Words13(t, i + 1)

\* _extract_isbn13_from_text: the first valid word starting 978/979, else the
\* first valid 13-digit word
_extract_isbn13_from_text(t) ==
    IF t = <<>> THEN NoneSeq
    ELSE LET words == Words13(t, 1)
             first == FirstValid13(SelectSeq(words, Starts97x))
         IN  IF first # NoneSeq THEN first ELSE FirstValid13(words)

\* x or ""
OrEmpty(x) == IF x = NoneSeq THEN <<>> ELSE x

\* parse_jsonld_book's isbn: cleaned, kept only if 13 characters and valid
JsonLdIsbn(o) ==
    LET v == clean_isbn(o.isbn) IN IF Len(v) = 13 /\ validate_isbn13(v) THEN v ELSE <<>>

\* scrape_saxo(url) for a fetch that did not raise
scrape_saxo(url, o) ==
    IF o.kind # "page" THEN EmptyDict
    ELSE LET jld  == JsonLdIsbn(o)
             txt  == _extract_isbn13_from_text(o.text)
             isbn == IF jld # <<>> THEN jld
                     ELSE IF txt # NoneSeq THEN txt
                     ELSE OrEmpty(_isbn_from_saxo_url(url))
         IN  [ Title  |-> o.title,
               Author |-> o.author,
               isbn13 |-> isbn,
               isbn10 |-> OrEmpty(isbn13_to_isbn10(isbn)),
               source |-> "web(saxo)",
               url    |-> _normalize_url(url) ]

\* the key without .lower()
FallbackKeyCased(r) == normalize_text(r.Title) \o <<"|">> \o normalize_text(r.Author)

\* normalize_text(Title).lower() + "|" + normalize_text(Author).lower()
FallbackKey(r) ==
    lower(normalize_text(r.Title)) \o <<"|">> \o lower(normalize_text(r.Author))

\* not rec or not (rec.get("Title") or rec.get("ISBN-13"))
Dropped(r) == ~TruthyRec(r) \/ (r.Title = <<>> /\ r.isbn13 = <<>>)

\* isbn and validate_isbn13(isbn)
HasValidIsbn(r) == r.isbn13 # <<>> /\ validate_isbn13(r.isbn13)

\* the record-level test without the look-up in seen_isbn
AcceptsAnyIsbn(r, accepted, seenIsbn) ==
    /\ ~Dropped(r)
    /\ HasValidIsbn(r) \/ \A i \in 1..Len(accepted) : FallbackKey(accepted[i]) # FallbackKey(r)

\* lines 582-601: the record is appended to out
Accepts(r, accepted, seenIsbn) ==
    /\ ~Dropped(r)
    /\ IF HasValidIsbn(r) THEN r.isbn13 \notin seenIsbn
       ELSE \A i \in 1..Len(accepted) : FallbackKey(accepted[i]) # FallbackKey(r)

\* lines 571-575: the URL is skipped before the fetch
SkippedByUrlIsbn(norm, seenIsbn) ==
    LET url_isbn == _isbn_from_saxo_url(norm) IN
    url_isbn # NoneSeq /\ url_isbn \in seenIsbn

\* the link-level test without the look-up in seen_urls
SeenUrlNever(norm, seen) == FALSE

\* line 567: norm in seen_urls
SeenUrl(norm, seen) == norm \in seen

\* the loop without its break
ReachedMaxNever(n, max) == FALSE

\* line 604: len(out) >= max_results
ReachedMax(n, max) == n >= max

(***************************************************************************)
(* search_saxo_by_title (src/scraper.py), one step per fetch               *)
(***************************************************************************)
MaxResults == 2

Queries == {<<>>, <<" ">>, <<" ", "A", " ", " ", "e">>}

SearchInit ==
    /\ raw = <<>> /\ isbndb_key = FALSE /\ pc = "idle" /\ s = <<>>
    /\ rec = NoneRec /\ webrec = NoneRec /\ enrich = NoneRec /\ result = NoneRec
    /\ calls = <<>> /\ net = 0
    /\ query \in Queries
    /\ max_results \in 0..MaxResults
    /\ spc = "start"
    /\ links = <<>> /\ step = 0 /\ isbns = <<>> /\ isbn_i = 0 /\ new_links = <<>>
    /\ pos = 0 /\ out = <<>> /\ seen_urls = {} /\ seen_isbn = {}
    /\ scraped = <<>> /\ scrape_result = NoneRec /\ probed = <<>>
    /\ author_out = <<>>
    /\ GbIdle /\ IsbnIdle /\ ExtractIdle /\ RepoIdle

\* lines 542-546
Start ==
    /\ spc = "start"
    /\ spc' = IF normalize_text(query) = <<>> THEN "done" ELSE "pass1"
    /\ UNCHANGED <<query, max_results, links, step, isbns, isbn_i, new_links,
                   pos, out, seen_urls, seen_isbn, scraped, scrape_result, probed, author_out>>
    /\ UNCHANGED <<lookupVars, gbVars, isbnVars, extractVars, repoVars>>

\* one turn of _try_saxo_search_pages' loop (line 549); after the last one,
\* line 552 decides between the harvest and the scrape loop
SearchPage ==
    /\ spc = "pass1"
    /\ \E soup \in SoupOutcomes :
        LET found == AppendNew(links, _collect_saxo_links_from_html(soup)) IN
        /\ links' = found
        /\ IF step + 1 < SearchShapes
           THEN step' = step + 1 /\ spc' = spc
           ELSE step' = 0 /\ spc' = IF found = <<>> THEN "harvest" ELSE "scrape"
    /\ UNCHANGED <<query, max_results, isbns, isbn_i, new_links,
                   pos, out, seen_urls, seen_isbn, scraped, scrape_result, probed, author_out>>
    /\ UNCHANGED <<lookupVars, gbVars, isbnVars, extractVars, repoVars>>

\* one turn of _gbooks_fetch_isbns' while loop (called at line 553); step
\* counts the requests made, so start = step * GbPageSize
HarvestPage ==
    /\ spc = "harvest"
    /\ \E pg \in GbPages :
        IF gbooks_raises(pg)
        THEN spc' = "raised" /\ UNCHANGED <<isbns, step, isbn_i>>
        ELSE LET found == IF pg.kind = "ok"
                          THEN AddIsbns(isbns, Identifiers(pg.items), GbWant)
                          ELSE isbns
             IN  /\ isbns' = found
                 /\ IF HarvestEnds(pg, found, step * GbPageSize)
                    THEN /\ step' = 0
                         /\ isbn_i' = IF found = <<>> THEN 0 ELSE 1
                         /\ spc' = IF found = <<>> THEN "scrape" ELSE "probe"
                    ELSE step' = step + 1 /\ spc' = spc /\ isbn_i' = isbn_i
    /\ UNCHANGED <<query, max_results, links, new_links,
                   pos, out, seen_urls, seen_isbn, scraped, scrape_result, probed, author_out>>
    /\ UNCHANGED <<lookupVars, gbVars, isbnVars, extractVars, repoVars>>

\* AfterProbe without the break of lines 558-559: every harvested ISBN is
\* looked up
AfterProbeNoBreak(found) ==
    LET all == AppendNew(links, found) IN
    /\ links' = all
    /\ new_links' = <<>>
    /\ step' = 0
    /\ probed' = Append(probed, isbns[isbn_i])
    /\ IF isbn_i = Len(isbns)
       THEN spc' = "scrape" /\ isbn_i' = isbn_i
       ELSE spc' = spc /\ isbn_i' = isbn_i + 1

\* lines 554-559, after _try_saxo_by_isbn returned `found` for isbns[isbn_i]
AfterProbe(found) ==
    LET all == AppendNew(links, found) IN
    /\ links' = all
    /\ new_links' = <<>>
    /\ step' = 0
    /\ probed' = Append(probed, isbns[isbn_i])
    /\ IF Len(all) >= max_results \/ isbn_i = Len(isbns)
       THEN spc' = "scrape" /\ isbn_i' = isbn_i
       ELSE spc' = spc /\ isbn_i' = isbn_i + 1

\* _try_saxo_by_isbn, lines 509-518: one of the two search pages
ProbeSearch ==
    /\ spc = "probe" /\ step < ProbeSearches
    /\ \E soup \in IsbnSoupOutcomes :
        new_links' = AppendNew(new_links, _collect_saxo_links_from_html(soup))
    /\ step' = step + 1
    /\ UNCHANGED <<query, max_results, spc, links, isbns, isbn_i,
                   pos, out, seen_urls, seen_isbn, scraped, scrape_result, probed, author_out>>
    /\ UNCHANGED <<lookupVars, gbVars, isbnVars, extractVars, repoVars>>

\* _try_saxo_by_isbn, lines 521-530: one of the two direct product paths
ProbeDirect ==
    /\ spc = "probe" /\ step >= ProbeSearches
    /\ \E r \in DirectOutcomes(DirectUrl(step - ProbeSearches + 1, isbns[isbn_i])) :
        LET final == IF r.ok THEN <<_normalize_url(r.url)>> ELSE <<>>
            kept  == SelectSeq(final, ContainsBog)
            found == AppendNew(new_links, kept)
        IN  IF step + 1 < ProbeFetches
            THEN /\ new_links' = found /\ step' = step + 1
                 /\ UNCHANGED <<spc, links, isbn_i, probed>>
            ELSE AfterProbe(found)
    /\ UNCHANGED <<query, max_results, isbns, pos, out, seen_urls, seen_isbn,
                   scraped, scrape_result, author_out>>
    /\ UNCHANGED <<lookupVars, gbVars, isbnVars, extractVars, repoVars>>

\* one turn of the scrape loop, lines 565-605
ScrapeNext ==
    /\ spc = "scrape" /\ pos < Len(links)
    /\ pos' = pos + 1
    /\ LET norm == _normalize_url(links[pos + 1]) IN
       IF SeenUrl(norm, seen_urls)
       THEN UNCHANGED <<spc, out, seen_urls, seen_isbn, scraped, scrape_result>>
       ELSE /\ seen_urls' = seen_urls \cup {norm}
            /\ IF SkippedByUrlIsbn(norm, seen_isbn)
               THEN UNCHANGED <<spc, out, seen_isbn, scraped, scrape_result>>
               ELSE \E o \in PageOutcomes :
                        LET r == IF o.kind = "raise" THEN NoneRec ELSE scrape_saxo(norm, o)
                            accepted == o.kind # "raise" /\ Accepts(r, out, seen_isbn)
                        IN
                        /\ scrape_result' = r
                        /\ scraped' = Append(scraped,
                               [url      |-> norm,
                                isbn     |-> IF TruthyRec(r) /\ HasValidIsbn(r)
                                             THEN r.isbn13 ELSE <<>>,
                                accepted |-> accepted])
                        /\ IF accepted
                           THEN /\ out' = Append(out, r)
                                /\ seen_isbn' = IF HasValidIsbn(r)
                                                THEN seen_isbn \cup {r.isbn13}
                                                ELSE seen_isbn
                                /\ spc' = IF ReachedMax(Len(out) + 1, max_results)
                                          THEN "done" ELSE spc
                           ELSE UNCHANGED <<spc, out, seen_isbn>>
    /\ UNCHANGED <<query, max_results, links, step, isbns, isbn_i, new_links, probed,
                   author_out>>
    /\ UNCHANGED <<lookupVars, gbVars, isbnVars, extractVars, repoVars>>

\* the scrape loop runs out of links; line 607
ReturnOut ==
    /\ spc = "scrape" /\ pos = Len(links)
    /\ spc' = "done"
    /\ UNCHANGED <<query, max_results, links, step, isbns, isbn_i, new_links,
                   pos, out, seen_urls, seen_isbn, scraped, scrape_result, probed, author_out>>
    /\ UNCHANGED <<lookupVars, gbVars, isbnVars, extractVars, repoVars>>

\* t in hay
Contains(hay, t) ==
    \E i \in 1..(Len(hay) - Len(t) + 1) : SubSeq(hay, i, i + Len(t) - 1) = t

\* [t for t in re.split(r"\s+", q) if t]
RECURSIVE Tokens(_)
Tokens(q) ==
    IF q = <<>> THEN <<>>
    ELSE IF IsSpace(q[1]) THEN Tokens(Tail(q))
    ELSE LET n == IF \E i \in 1..Len(q) : IsSpace(q[i])
                  THEN (CHOOSE i \in 1..Len(q) :
                            IsSpace(q[i]) /\ \A j \in 1..(i - 1) : ~IsSpace(q[j])) - 1
                  ELSE Len(q)
         IN  <<SubSeq(q, 1, n)>> \o Tokens(SubSeq(q, n + 1, Len(q)))

\* _author_matches with any() in place of all()
_author_matchesAny(candidate, q0) ==
    LET cand == lower(normalize_text(candidate))
        q    == lower(normalize_text(q0))
        tokens == Tokens(q)
    IN  q = <<>> \/ \E i \in 1..Len(tokens) : Contains(cand, tokens[i])

\* _author_matches
_author_matches(candidate, q0) ==
    LET cand == lower(normalize_text(candidate))
        q    == lower(normalize_text(q0))
        tokens == Tokens(q)
    IN  q = <<>> \/ \A i \in 1..Len(tokens) : Contains(cand, tokens[i])

\* search_saxo_by_author(query, max_results \div 2), lines 632-635, on the list
\* its call search_saxo_by_title(query, max_results) at line 631 returned
AuthorFilter ==
    /\ spc = "done" /\ max_results % 2 = 0
    /\ spc' = "author_done"
    /\ LET Matches(r) == _author_matches(r.Author, query)
           kept == SelectSeq(out, Matches)
           n    == IF Len(kept) < max_results \div 2 THEN Len(kept) ELSE max_results \div 2
       IN  author_out' = IF out = <<>> THEN <<>> ELSE SubSeq(kept, 1, n)
    /\ UNCHANGED <<query, max_results, links, step, isbns, isbn_i, new_links,
                   pos, out, seen_urls, seen_isbn, scraped, scrape_result, probed>>
    /\ UNCHANGED <<lookupVars, gbVars, isbnVars, extractVars, repoVars>>

SearchNext ==
    \/ Start
    \/ SearchPage
    \/ HarvestPage
    \/ ProbeSearch
    \/ ProbeDirect
    \/ ScrapeNext
    \/ ReturnOut
    \/ AuthorFilter

SearchSpec == SearchInit /\ [][SearchNext]_vars

(***************************************************************************)
(* Properties of search_saxo_by_title                                      *)
(***************************************************************************)
\* the checksum-valid ISBN-13 of a record, or the empty text
RecordIsbn(r) ==
    IF TruthyRec(r) /\ Len(r.isbn13) = 13 /\ validate_isbn13(r.isbn13) THEN r.isbn13 ELSE <<>>

IsAccepted(e) == e.accepted

\* the arguments of the accepted scrapes among the first k, in scrape order
AcceptedUpTo(k) ==
    LET acc == SelectSeq(SubSeq(scraped, 1, k), IsAccepted)
    IN  [i \in 1..Len(acc) |-> acc[i].url]

\* out as it was when the latest scrape_saxo call was made
OutBefore ==
    IF scraped # <<>> /\ scraped[Len(scraped)].accepted
    THEN SubSeq(out, 1, Len(out) - 1)
    ELSE out

\* C6: no two returned records carry the same checksum-valid ISBN-13; a scrape
\* that produced a valid ISBN-13 is accepted exactly when no earlier scrape of
\* the call produced that ISBN-13, and the returned record with that ISBN-13
\* comes from the first scrape that produced it.
C6_OnePerValidIsbn ==
    /\ \A i, j \in 1..Len(out) :
           (i # j /\ RecordIsbn(out[i]) # <<>>) => RecordIsbn(out[i]) # RecordIsbn(out[j])
    /\ \A k \in 1..Len(scraped) :
           scraped[k].isbn # <<>> =>
               (scraped[k].accepted <=>
                    \A m \in 1..(k - 1) : scraped[m].isbn # scraped[k].isbn)
    /\ \A i \in 1..Len(out) :
           RecordIsbn(out[i]) # <<>> =>
               \E k \in 1..Len(scraped) :
                   /\ _normalize_url(scraped[k].url) = out[i].url
                   /\ scraped[k].isbn = RecordIsbn(out[i])
                   /\ \A m \in 1..(k - 1) : scraped[m].isbn # scraped[k].isbn

\* two distinct URLs scraped to the same valid ISBN-13; the first was accepted,
\* the second was not, and the call has returned
C6_Witness ==
    /\ spc = "done"
    /\ \E k, m \in 1..Len(scraped) :
           /\ k < m
           /\ scraped[k].url # scraped[m].url
           /\ scraped[k].isbn # <<>>
           /\ scraped[k].isbn = scraped[m].isbn
           /\ scraped[k].accepted /\ ~scraped[m].accepted
           /\ \E i \in 1..Len(out) : RecordIsbn(out[i]) = scraped[k].isbn

\* lowercased, whitespace-normalized title + "|" + author
TitleAuthorKey(r) ==
    lower(normalize_text(r.Title)) \o <<"|">> \o lower(normalize_text(r.Author))

\* C7: a returned record without a valid ISBN-13 has a fallback key that no
\* record returned before it has; a scrape that produced a titled record
\* without a valid ISBN-13 is accepted exactly when no record accepted before it
\* has its key; a scrape that produced a record with neither a title nor a
\* valid ISBN-13, or no record, is not accepted, and no such record is returned.
C7_FallbackKeyDedup ==
    /\ \A j \in 1..Len(out) :
           RecordIsbn(out[j]) = <<>> =>
               \A i \in 1..(j - 1) : TitleAuthorKey(out[i]) # TitleAuthorKey(out[j])
    /\ \A i \in 1..Len(out) : out[i].Title # <<>> \/ RecordIsbn(out[i]) # <<>>
    /\ scraped # <<>> =>
           LET accepted == scraped[Len(scraped)].accepted IN
           /\ accepted => TruthyRec(scrape_result) /\ out[Len(out)] = scrape_result
           /\ (TruthyRec(scrape_result) /\ RecordIsbn(scrape_result) = <<>>) =>
                  IF scrape_result.Title = <<>>
                  THEN ~accepted
                  ELSE accepted <=>
                           \A i \in 1..Len(OutBefore) :
                               TitleAuthorKey(OutBefore[i]) # TitleAuthorKey(scrape_result)

\* a URL scraped to a titled record without ISBN whose key a record without
\* ISBN, accepted earlier from another URL, has: it was not accepted
C7_Witness ==
    /\ scraped # <<>>
    /\ ~scraped[Len(scraped)].accepted
    /\ TruthyRec(scrape_result)
    /\ RecordIsbn(scrape_result) = <<>> /\ scrape_result.Title # <<>>
    /\ \E i \in 1..Len(out) :
           /\ RecordIsbn(out[i]) = <<>>
           /\ out[i].url # scrape_result.url
           /\ TitleAuthorKey(out[i]) = TitleAuthorKey(scrape_result)

\* C8: when max_results >= 1, out never holds more than max_results records;
\* out holds the accepted scrapes in scrape order; every scrape was made while
\* fewer than max_results records were accepted; and a call that returned
\* fewer than max_results records went through all its candidates.
C8_AtMostMaxResults ==
    max_results >= 1 =>
        /\ Len(out) <= max_results
        /\ LET acc == AcceptedUpTo(Len(scraped)) IN
           /\ Len(out) = Len(acc)
           /\ \A i \in 1..Len(out) : out[i].url = _normalize_url(acc[i])
        /\ \A k \in 1..Len(scraped) : Len(AcceptedUpTo(k - 1)) < max_results
        /\ (spc = "done" /\ Len(out) < max_results) => pos = Len(links)

\* the call returned exactly max_results = 2 records, having scraped and
\* rejected a candidate on the way and leaving a candidate unvisited
C8_Witness ==
    /\ spc = "done"
    /\ max_results = 2
    /\ Len(out) = max_results
    /\ Len(scraped) > Len(out)
    /\ pos < Len(links)

\* C9: no URL is passed to scrape_saxo twice in one call, and every URL passed
\* has scheme https, no query, and the canonical host for the retailer's hosts.
C9_ScrapedAtMostOnce ==
    /\ \A i, j \in 1..Len(scraped) : i # j => scraped[i].url # scraped[j].url
    /\ \A k \in 1..Len(scraped) :
           /\ scraped[k].url.scheme = "https"
           /\ scraped[k].url.query = ""
           /\ scraped[k].url.host \notin (_SAXO_HOSTS \ {"www.saxo.com"})

\* two different candidates that normalize to one URL were both visited, and
\* that URL was scraped
C9_Witness ==
    \E i, j \in 1..pos :
        /\ i < j
        /\ links[i] # links[j]
        /\ _normalize_url(links[i]) = _normalize_url(links[j])
        /\ \E k \in 1..Len(scraped) : scraped[k].url = _normalize_url(links[i])

\* the checksum-valid ISBN-13s that stand in a product slug of the URL's path
EmbeddedIsbns(u) ==
    { u.path[i].code : i \in { j \in 1..Len(u.path) :
                                 /\ IsSlug(u.path[j])
                                 /\ Len(u.path[j].code) = 13
                                 /\ validate_isbn13(u.path[j].code) } }

\* C10: no URL is scraped whose path embeds a checksum-valid ISBN-13 that an
\* earlier scrape of the call was accepted with.
C10_EmbeddedIsbnSkipped ==
    \A k \in 1..Len(scraped) :
        \A m \in 1..(k - 1) :
            ~(scraped[m].accepted /\ scraped[m].isbn \in EmbeddedIsbns(scraped[k].url))

\* C11: search_saxo_by_title never leaves by an exception.
C11_SearchNeverRaises == spc # "raised"

\* C12: the harvest runs only while the direct search has left links empty,
\* an ISBN is looked up only after the harvest, and the loop moves on to a
\* further harvested ISBN only when the links accumulated so far are fewer
\* than max_results; a lookup that brings the count to max_results is the last.
C12_HarvestOnlyWhenEmpty ==
    /\ [](spc = "harvest" => links = <<>>)
    /\ [][spc' = "probe" => spc \in {"harvest", "probe"}]_vars
    /\ [][(spc' = "harvest" /\ spc # "harvest") => (spc = "pass1" /\ links' = <<>>)]_vars
    /\ [][isbn_i' > isbn_i =>
              (isbn_i = 0 /\ links' = <<>>) \/ Len(links') < max_results]_vars
    /\ [][(probed' # probed /\ Len(links') >= max_results) => spc' = "scrape"]_vars
    /\ [][probed' # probed => spc = "probe"]_vars

\* the harvest gave two ISBNs, the lookup of the first brought the candidate
\* count to max_results >= 1, and the second was not looked up
C12_Witness ==
    /\ spc = "scrape"
    /\ max_results >= 1
    /\ Len(isbns) = 2
    /\ Len(probed) = 1
    /\ Len(links) >= max_results

\* C13: the harvest holds at most GbWant values, pairwise distinct, every one
\* a checksum-valid ISBN-13.
C13_HarvestValidDistinct ==
    /\ Len(isbns) <= GbWant
    /\ \A i, j \in 1..Len(isbns) : i # j => isbns[i] # isbns[j]
    /\ \A i \in 1..Len(isbns) : validate_isbn13(isbns[i])

\* the positions of the records of out whose author contains, without regard
\* to case, every whitespace-delimited token of the query
MatchingPositions ==
    LET toks == Tokens(lower(normalize_text(query)))
        Hit(i) == \A k \in 1..Len(toks) :
                      Contains(lower(normalize_text(out[i].Author)), toks[k])
    IN  SelectSeq([i \in 1..Len(out) |-> i], Hit)

\* C14: what search_saxo_by_author(query, n) returns is made of the first at
\* most n records, in their order, of search_saxo_by_title(query, 2n) whose
\* author contains every token of the query, and of nothing else.
C14_AuthorFilter ==
    spc = "author_done" =>
        LET n == max_results \div 2
            m == IF Len(MatchingPositions) < n THEN Len(MatchingPositions) ELSE n
        IN  author_out = [k \in 1..m |-> out[MatchingPositions[k]]]

\* the title search returned two records, the first with an author that
\* holds one token of the query but not the other, the second with both; the
\* author search returned the second alone
C14_Witness ==
    /\ spc = "author_done"
    /\ Len(out) = 2
    /\ Contains(lower(out[1].Author), <<"a">>) /\ ~Contains(lower(out[1].Author), <<"e">>)
    /\ author_out = <<out[2]>>

\* ---- the copies of the ISBN functions in scraper.py and app.py
\* sum((int(d) * (1 if i % 2 == 0 else 3)) for i, d in enumerate(isbn13[:12]))
\* (scraper.py and app.py; i is 0-based in the code, 1-based here)
Total13(isbn13) ==
    LET w(i) == IF (i - 1) % 2 = 0 THEN 1 ELSE 3
        RECURSIVE Sum(_)
        Sum(n) == IF n = 0 THEN 0 ELSE Sum(n - 1) + DigitVal(isbn13[n]) * w(n)
    IN  Sum(12)

\* validate_isbn13 (scraper.py copy)
scraper_validate_isbn13(isbn13) ==
    IF ~(isdigit(isbn13) /\ Len(isbn13) = 13) THEN FALSE
    ELSE LET total == Total13(isbn13)
             check == (10 - (total % 10)) % 10
         IN  check = DigitVal(isbn13[Len(isbn13)])

\* validate_isbn13 (app.py copy)
app_validate_isbn13(isbn13) ==
    IF ~(isdigit(isbn13) /\ Len(isbn13) = 13) THEN FALSE
    ELSE LET total == Total13(isbn13)
             check == (10 - (total % 10)) % 10
         IN  check = DigitVal(isbn13[Len(isbn13)])

\* isbn13.startswith("978")
StartsWith978(isbn13) == Len(isbn13) >= 3 /\ SubSeq(isbn13, 1, 3) = <<"9", "7", "8">>

\* the lines every copy of isbn13_to_isbn10 has after its test
CoreAndCheck(isbn13) ==
    LET core == SubSeq(isbn13, 4, 12)
        RECURSIVE Sum(_)
        Sum(n) == IF n = 0 THEN 0 ELSE Sum(n - 1) + n * DigitVal(core[n])
        remainder == Sum(Len(core)) % 11
    IN  core \o (IF remainder = 10 THEN <<"X">> ELSE Txt(<<remainder>>))

\* isbn13_to_isbn10 without the startswith("978") test
utils_isbn13_to_isbn10AnyPrefix(isbn13) ==
    IF ~validate_isbn13(isbn13) THEN NoneSeq
    ELSE CoreAndCheck(isbn13)

\* isbn13_to_isbn10 (utils.py copy)
utils_isbn13_to_isbn10(isbn13) ==
    IF ~(StartsWith978(isbn13) /\ validate_isbn13(isbn13)) THEN NoneSeq
    ELSE CoreAndCheck(isbn13)

\* isbn13_to_isbn10 (app.py copy)
app_isbn13_to_isbn10(isbn13) ==
    IF ~(StartsWith978(isbn13) /\ app_validate_isbn13(isbn13)) THEN NoneSeq
    ELSE CoreAndCheck(isbn13)

(***************************************************************************)
(* Bibliographic text search: google_books_search (src/app.py)             *)
(***************************************************************************)
\* re.fullmatch(r"\d{9}[\dX]", cand), for a cand of length 10
Matches9DigitsAndCheck(cand) == isdigit(SubSeq(cand, 1, 9)) /\ IsIsbnChar(cand[10])

\* _looks_like_isbn: the cleaned query, or None
_looks_like_isbn(q) ==
    LET cand == clean_isbn(q) IN
    IF Len(cand) = 13 /\ isdigit(cand) THEN cand
    ELSE IF Len(cand) = 10 /\ Matches9DigitsAndCheck(cand) THEN cand
    ELSE NoneSeq

\* the character class [A-Za-z'\-] on the characters the inputs use
IsNameChar(c) == c \in DOMAIN UpperOf \/ c \in DOMAIN LowerOf \/ c \in {"'", "-"}

\* len(re.findall(r"[A-Za-z'\-]+", q)): the maximal runs of name characters
WordCount(q) ==
    Cardinality({i \in 1..Len(q) :
                    IsNameChar(q[i]) /\ (i = 1 \/ ~IsNameChar(q[i - 1]))})

\* the operators the author heuristic looks for in the lower-cased query
OperatorToks == {<<":">>, <<" ", "i", "s", "b", "n">>,
                 <<" ", "i", "n", "t", "i", "t", "l", "e">>,
                 <<" ", "i", "n", "a", "u", "t", "h", "o", "r">>}

\* _looks_like_author without the test for operators
_looks_like_authorAnyText(q) ==
    /\ 2 <= WordCount(q) /\ WordCount(q) <= 4
    /\ ~\E i \in 1..Len(q) : IsDigit(q[i])

\* _looks_like_author
_looks_like_author(q) ==
    /\ ~\E tok \in OperatorToks : Contains(lower(q), tok)
    /\ 2 <= WordCount(q) /\ WordCount(q) <= 4
    /\ ~\E i \in 1..Len(q) : IsDigit(q[i])

\* f"isbn:{isbn}"
IsbnForm(isbn) == <<"i", "s", "b", "n", ":">> \o isbn

\* f'inauthor:"{qs}"'
InAuthorForm(qs) == <<"i", "n", "a", "u", "t", "h", "o", "r", ":", "\"">> \o qs \o <<"\"">>

\* f'intitle:"{qs}"'
InTitleForm(qs) == <<"i", "n", "t", "i", "t", "l", "e", ":", "\"">> \o qs \o <<"\"">>

\* _attempts_for
_attempts_for(qs) ==
    LET isbn == _looks_like_isbn(qs) IN
    IF isbn # NoneSeq /\ isbn # <<>> THEN <<IsbnForm(isbn)>>
    ELSE IF _looks_like_author(qs) THEN <<InAuthorForm(qs), InTitleForm(qs), qs>>
    ELSE <<qs, InAuthorForm(qs), InTitleForm(qs)>>

\* the volumes the provider answers with: "a" and "b" carry an id, the third
\* carries none
Volume(id, title, idents) ==
    [id |-> id, volumeInfo |-> [title |-> title, industryIdentifiers |-> idents]]

VolumeA == Volume("a", <<"D", " ">>, <<Ident("ISBN_13", <<" ">> \o Ibad)>>)

VolumeB == Volume("b", <<"E">>, <<Ident("OTHER", I2), Ident("ISBN_13", I1)>>)

VolumeNoId == [id |-> NoneStr, volumeInfo |-> [title |-> <<"D">>]]

\* what one GET of GB_ENDPOINT can bring: requests.get or r.json() raises, or
\* a response with its ok flag and its JSON body
GbResponses ==
    {[raises |-> rs, ok |-> k, json |-> [items |-> its]] :
        rs \in BOOLEAN, k \in BOOLEAN,
        its \in {NoneRefs, <<>>, <<VolumeB>>, <<VolumeA, VolumeB>>, <<VolumeNoId, VolumeA>>}}

\* _search_gbooks, for a response that did not raise
_search_gbooks(r) ==
    IF ~r.ok THEN <<>>
    ELSE LET got == Get(r.json, "items", <<>>) IN
         IF got = NoneRefs \/ got = <<>> THEN <<>> ELSE got

MaxLimit == 2

\* " D  a" is author-like, "D-a e'a" too; "D", "a a a a a", "D a 1", "D:a e",
\* "a Isbn" and "X043902352" are generic; I1, "D " + I1 and "043902352x" clean
\* to an identifier
GbQueries ==
    {<<>>, <<" ">>, I1, <<"D", " ">> \o I1, Txt(Base9) \o <<"x">>,
     <<"X">> \o Txt(Base9),
     <<" ", "D", " ", " ", "a">>,
     <<"D">>,
     <<"D", " ", "a", " ", "1">>,
     <<"D", ":", "a", " ", "e">>,
     <<"a", " ", "I", "s", "b", "n">>,
     <<"a", " ", "a", " ", "a", " ", "a", " ", "a">>,
     <<"D", "-", "a", " ", "e", "'", "a">>}

GbInit ==
    /\ LookupIdle /\ SearchIdle /\ IsbnIdle /\ ExtractIdle /\ RepoIdle
    /\ gb_query \in GbQueries
    /\ limit \in 1..MaxLimit
    /\ prefer_lang \in {"da", NoneStr}
    /\ gpc = "start"
    /\ attempts = <<>> /\ lang = NoneStr /\ at_i = 0 /\ results = <<>>
    /\ gb_items = <<>> /\ requests = <<>> /\ gb_out = <<>>

\* lines 281-298
GbEnter ==
    /\ gpc = "start"
    /\ IF gb_query = <<>> \/ strip(gb_query) = <<>>
       THEN gpc' = "done" /\ attempts' = attempts
       ELSE gpc' = "pass1" /\ attempts' = _attempts_for(normalize_text(gb_query))
    /\ UNCHANGED <<gb_query, limit, prefer_lang, lang, at_i, results, gb_items,
                   requests, gb_out>>
    /\ UNCHANGED <<lookupVars, searchVars, isbnVars, extractVars, repoVars>>

\* lines 313-314: the language-restricted pass, when there is a language
GbPass1 ==
    /\ gpc = "pass1"
    /\ IF prefer_lang # NoneStr /\ prefer_lang # ""
       THEN gpc' = "run" /\ lang' = prefer_lang /\ at_i' = 1
       ELSE gpc' = "pass2" /\ lang' = lang /\ at_i' = at_i
    /\ results' = <<>>
    /\ UNCHANGED <<gb_query, limit, prefer_lang, attempts, gb_items, requests, gb_out>>
    /\ UNCHANGED <<lookupVars, searchVars, isbnVars, extractVars, repoVars>>

\* lines 315-316: the unrestricted pass, when items are still fewer than limit
GbPass2 ==
    /\ gpc = "pass2"
    /\ IF Len(gb_items) < limit
       THEN gpc' = "run" /\ at_i' = 1
       ELSE gpc' = "dedup" /\ at_i' = at_i
    /\ lang' = NoneStr
    /\ results' = <<>>
    /\ UNCHANGED <<gb_query, limit, prefer_lang, attempts, gb_items, requests, gb_out>>
    /\ UNCHANGED <<lookupVars, searchVars, isbnVars, extractVars, repoVars>>

\* one turn of the loop of _run_attempts (lines 305-309) and, after its last
\* turn, the items.extend of line 314 or 316
GbRequest ==
    /\ gpc = "run"
    /\ \E r \in GbResponses :
        LET got == IF r.raises THEN <<>> ELSE _search_gbooks(r)
            all == results \o got
        IN  /\ requests' = Append(requests,
                                  [q |-> attempts[at_i], langRestrict |-> lang, got |-> got])
            /\ IF r.raises
               THEN gpc' = "raised" /\ UNCHANGED <<results, at_i, gb_items>>
               ELSE IF Len(all) >= limit \/ at_i = Len(attempts)
               THEN /\ gb_items' = gb_items \o all
                    /\ results' = all
                    /\ at_i' = at_i
                    /\ gpc' = IF lang # NoneStr THEN "pass2" ELSE "dedup"
               ELSE /\ results' = all
                    /\ at_i' = at_i + 1
                    /\ gpc' = gpc
                    /\ gb_items' = gb_items
    /\ UNCHANGED <<gb_query, limit, prefer_lang, attempts, lang, gb_out>>
    /\ UNCHANGED <<lookupVars, searchVars, isbnVars, extractVars, repoVars>>

\* the loop of lines 319-325 without the `vid not in seen` test
RECURSIVE DedupLoopNoSeen(_, _)
DedupLoopNoSeen(its, uniq) ==
    IF its = <<>> THEN uniq
    ELSE LET vid == its[1].id
             u2  == IF vid # NoneStr /\ vid # "" THEN Append(uniq, its[1]) ELSE uniq
         IN  IF Len(u2) >= limit THEN u2 ELSE DedupLoopNoSeen(Tail(its), u2)

\* the loop of lines 319-325 over its, with uniq as built so far
RECURSIVE DedupLoop(_, _)
DedupLoop(its, uniq) ==
    IF its = <<>> THEN uniq
    ELSE LET vid == its[1].id
             u2  == IF /\ vid # NoneStr /\ vid # ""
                       /\ \A k \in 1..Len(uniq) : uniq[k].id # vid
                    THEN Append(uniq, its[1])
                    ELSE uniq
         IN  IF Len(u2) >= limit THEN u2 ELSE DedupLoop(Tail(its), u2)

\* the first identifier of the type t that is not blank, stripped
RECURSIVE FirstIdent(_, _)
FirstIdent(idents, t) ==
    IF idents = <<>> THEN <<>>
    ELSE LET v == strip(idents[1].identifier) IN
         IF idents[1].type = t /\ v # <<>> THEN v ELSE FirstIdent(Tail(idents), t)

\* _extract_isbns: <<isbn13, isbn10>>
_extract_isbns(info) ==
    LET idents == Get(info, "industryIdentifiers", <<>>)
        isbn13 == FirstIdent(idents, "ISBN_13")
        given10 == FirstIdent(idents, "ISBN_10")
        isbn10 == IF /\ given10 = <<>> /\ isbn13 # <<>>
                     /\ StartsWith978(isbn13) /\ app_validate_isbn13(isbn13)
                  THEN OrEmpty(app_isbn13_to_isbn10(isbn13))
                  ELSE given10
    IN  <<isbn13, isbn10>>

\* lines 318-346: de-dup, then one record per kept volume (of the text fields
\* the record copies out of volumeInfo, Title stands for all)
GbDedup ==
    /\ gpc = "dedup"
    /\ gpc' = "done"
    /\ LET uniq == DedupLoop(gb_items, <<>>) IN
       gb_out' = [k \in 1..Len(uniq) |->
                     [id |-> uniq[k].id,
                      Title |-> normalize_text(uniq[k].volumeInfo.title),
                      isbn13 |-> _extract_isbns(uniq[k].volumeInfo)[1],
                      isbn10 |-> _extract_isbns(uniq[k].volumeInfo)[2]]]
    /\ UNCHANGED <<gb_query, limit, prefer_lang, attempts, lang, at_i, results,
                   gb_items, requests>>
    /\ UNCHANGED <<lookupVars, searchVars, isbnVars, extractVars, repoVars>>

GbNext ==
    \/ GbEnter
    \/ GbPass1
    \/ GbPass2
    \/ GbRequest
    \/ GbDedup

GbSearchSpec == GbInit /\ [][GbNext]_vars

\* C15: every query is classified into one attempt list: the exact-identifier
\* attempt alone when the query, cleaned, is 13 digits or 9 digits and a digit
\* or X; otherwise author-qualified, title-qualified, bare when the query has
\* 2 to 4 word tokens, no digit and no provider-qualifier substring; otherwise
\* bare, author-qualified, title-qualified.
C15_Classifier ==
    gpc \notin {"idle", "start"} /\ attempts # <<>> =>
        LET q == normalize_text(gb_query)
            IsId(c) == c \in DigitSet \/ c \in {"x", "X"}
            kept == SelectSeq(q, IsId)
            cleaned == [i \in 1..Len(kept) |-> IF kept[i] = "x" THEN "X" ELSE kept[i]]
            AllDigits(t) == \A i \in 1..Len(t) : t[i] \in DigitSet
            identifier ==
                \/ Len(cleaned) = 13 /\ AllDigits(cleaned)
                \/ Len(cleaned) = 10 /\ AllDigits(SubSeq(cleaned, 1, 9))
            InWord(i) == q[i] \notin DigitSet \cup {" ", ":"}
            words == Cardinality({i \in 1..Len(q) :
                                     InWord(i) /\ (i = 1 \/ ~InWord(i - 1))})
            qualifier == \E tok \in OperatorToks : Contains(lower(q), tok)
            authorLike == /\ words >= 2 /\ words <= 4
                          /\ \A i \in 1..Len(q) : q[i] \notin DigitSet
                          /\ ~qualifier
        IN  attempts =
                IF identifier THEN <<IsbnForm(cleaned)>>
                ELSE IF authorLike THEN <<InAuthorForm(q), InTitleForm(q), q>>
                ELSE <<q, InAuthorForm(q), InTitleForm(q)>>

\* a two-word query, given with surplus spaces, has been classified as
\* author-like: the author-qualified form of the normalized text goes first
C15_Witness ==
    /\ gpc = "pass1"
    /\ gb_query = <<" ", "D", " ", " ", "a">>
    /\ attempts = <<InAuthorForm(<<"D", " ", "a">>), InTitleForm(<<"D", " ", "a">>),
                    <<"D", " ", "a">>>>

\* C16: for a query that is not an identifier, once an attempt of a pass has
\* returned an item, no later attempt of that pass is sent.
C16_StopAtFirstResults ==
    Len(attempts) > 1 =>
        \A i, j \in 1..Len(requests) :
            (i < j /\ requests[i].langRestrict = requests[j].langRestrict)
                => requests[i].got = <<>>

\* C17: one call of google_books_search sends at most three requests.
C17_AtMostThreeRequests == Len(requests) <= 3

\* the requests of the language-restricted pass and of the unrestricted one
Restricted == SelectSeq(requests, LAMBDA r : r.langRestrict # NoneStr)

Unrestricted == SelectSeq(requests, LAMBDA r : r.langRestrict = NoneStr)

RECURSIVE Yield(_)
Yield(rs) == IF rs = <<>> THEN 0 ELSE Len(rs[1].got) + Yield(Tail(rs))

IdsOf(rs) ==
    UNION {{rs[i].got[k].id : k \in 1..Len(rs[i].got)} : i \in 1..Len(rs)} \ {NoneStr}

Stems12 ==
    {Base12, <<9, 7, 8, 0, 1, 4, 0, 4, 4, 9, 1, 3>>,
     <<9, 7, 8, 0, 4, 3, 9, 0, 2, 3, 5, 8>>, <<9, 7, 9, 0, 4, 3, 9, 0, 2, 3, 5, 2>>,
     <<9, 7, 8, 0, 8, 0, 4, 4, 2, 9, 5, 7>>}

\* the arguments the functions are applied to: every last digit on each stem,
\* an X in last place, 12 and 14 digits, the empty text, hyphens, a space
IsbnInputs ==
    {Txt(p \o <<d>>) : p \in Stems12, d \in 0..9}
        \cup {Txt(Base12) \o <<"X">>, Txt(Base12), Txt(Base12 \o <<8, 8>>), <<>>,
              HyphenatedI1, I1 \o <<" ">>, Txt(Base9 \o <<1>>)}

Copies == {"utils", "scraper", "app"}

IsbnInit ==
    /\ LookupIdle /\ SearchIdle /\ GbIdle /\ ExtractIdle /\ RepoIdle
    /\ isbn_arg \in IsbnInputs
    /\ valid = <<>>
    /\ to_isbn10 = <<>>

ValidateUtils ==
    /\ "utils" \notin DOMAIN valid
    /\ valid' = valid @@ ("utils" :> validate_isbn13(isbn_arg))
    /\ UNCHANGED <<isbn_arg, to_isbn10>>
    /\ UNCHANGED <<lookupVars, searchVars, gbVars, extractVars, repoVars>>

ValidateScraper ==
    /\ "scraper" \notin DOMAIN valid
    /\ valid' = valid @@ ("scraper" :> scraper_validate_isbn13(isbn_arg))
    /\ UNCHANGED <<isbn_arg, to_isbn10>>
    /\ UNCHANGED <<lookupVars, searchVars, gbVars, extractVars, repoVars>>

ValidateApp ==
    /\ "app" \notin DOMAIN valid
    /\ valid' = valid @@ ("app" :> app_validate_isbn13(isbn_arg))
    /\ UNCHANGED <<isbn_arg, to_isbn10>>
    /\ UNCHANGED <<lookupVars, searchVars, gbVars, extractVars, repoVars>>

ToIsbn10Utils ==
    /\ "utils" \notin DOMAIN to_isbn10
    /\ to_isbn10' = to_isbn10 @@ ("utils" :> utils_isbn13_to_isbn10(isbn_arg))
    /\ UNCHANGED <<isbn_arg, valid>>
    /\ UNCHANGED <<lookupVars, searchVars, gbVars, extractVars, repoVars>>

ToIsbn10Scraper ==
    /\ "scraper" \notin DOMAIN to_isbn10
    /\ to_isbn10' = to_isbn10 @@ ("scraper" :> isbn13_to_isbn10(isbn_arg))
    /\ UNCHANGED <<isbn_arg, valid>>
    /\ UNCHANGED <<lookupVars, searchVars, gbVars, extractVars, repoVars>>

ToIsbn10App ==
    /\ "app" \notin DOMAIN to_isbn10
    /\ to_isbn10' = to_isbn10 @@ ("app" :> app_isbn13_to_isbn10(isbn_arg))
    /\ UNCHANGED <<isbn_arg, valid>>
    /\ UNCHANGED <<lookupVars, searchVars, gbVars, extractVars, repoVars>>

IsbnNext ==
    \/ ValidateUtils
    \/ ValidateScraper
    \/ ValidateApp
    \/ ToIsbn10Utils
    \/ ToIsbn10Scraper
    \/ ToIsbn10App

IsbnSpec == IsbnInit /\ [][IsbnNext]_vars

\* C19: each copy of validate_isbn13 answers true exactly when its argument
\* is 13 digits and (10 - (the sum of the first 12 digits with weights 1, 3,
\* 1, 3, ...) mod 10) mod 10 is the 13th digit; so the copies agree.
C19_Validate13 ==
    LET t == isbn_arg
        d(i) == CHOOSE v \in 0..9 : DigitChars[v + 1] = t[i]
        odd == d(1) + d(3) + d(5) + d(7) + d(9) + d(11)
        even == d(2) + d(4) + d(6) + d(8) + d(10) + d(12)
        holds == /\ Len(t) = 13
                 /\ \A i \in 1..13 : t[i] \in DigitSet
                 /\ (10 - ((odd + 3 * even) % 10)) % 10 = d(13)
    IN  /\ \A c \in DOMAIN valid : valid[c] = holds
        /\ \A c1, c2 \in DOMAIN valid : valid[c1] = valid[c2]

\* the three copies have answered true on a valid ISBN-13 whose check digit
\* is 0
C19_Witness ==
    /\ isbn_arg = Txt(<<9, 7, 8, 0, 4, 3, 9, 0, 2, 3, 5, 8, 0>>)
    /\ DOMAIN valid = Copies
    /\ \A c \in Copies : valid[c]

\* C20 as stated: isbn13_to_isbn10("9780439023528") is "0439023528".
C20_Isbn10EndsIn8 ==
    isbn_arg = I1 => \A c \in DOMAIN to_isbn10 : to_isbn10[c] = Txt(Base9 \o <<8>>)

\* C20, amended: isbn13_to_isbn10("9780439023528") is "0439023521", in every
\* copy.
C20_Isbn10EndsIn1 ==
    isbn_arg = I1 => \A c \in DOMAIN to_isbn10 : to_isbn10[c] = Txt(Base9 \o <<1>>)

\* the three copies have converted "9780439023528"
C20_Witness ==
    /\ isbn_arg = I1
    /\ DOMAIN to_isbn10 = Copies

\* t is 13 digits whose 13th is the ISBN-13 check digit of the first 12
ChecksumValid13(t) ==
    /\ Len(t) = 13
    /\ \A i \in 1..13 : t[i] \in DigitSet
    /\ LET d(i) == CHOOSE v \in 0..9 : DigitChars[v + 1] = t[i]
           sum == d(1) + 3 * d(2) + d(3) + 3 * d(4) + d(5) + 3 * d(6)
                  + d(7) + 3 * d(8) + d(9) + 3 * d(10) + d(11) + 3 * d(12)
       IN  (sum + d(13)) % 10 = 0

\* C21: isbn13_to_isbn10(s) is None exactly when s is not a checksum-valid
\* ISBN-13 under 978; otherwise it is 10 characters, the first nine being
\* characters 4 to 12 of s, and it passes validate_isbn10.
C21_ToIsbn10 ==
    \A c \in DOMAIN to_isbn10 :
        LET r == to_isbn10[c]
            is978 == Len(isbn_arg) >= 3 /\ SubSeq(isbn_arg, 1, 3) = <<"9", "7", "8">>
        IN  /\ r = NoneSeq <=> ~(ChecksumValid13(isbn_arg) /\ is978)
            /\ r # NoneSeq =>
                  /\ Len(r) = 10
                  /\ SubSeq(r, 1, 9) = SubSeq(isbn_arg, 4, 12)
                  /\ <<"9", "7", "8">> \o SubSeq(r, 1, 9) = SubSeq(isbn_arg, 1, 12)
                  /\ validate_isbn10(r)

\* "9780804429573" has been converted by the three copies, to "080442957X"
C21_Witness ==
    /\ isbn_arg = Txt(<<9, 7, 8, 0, 8, 0, 4, 4, 2, 9, 5, 7, 3>>)
    /\ DOMAIN to_isbn10 = Copies
    /\ to_isbn10["utils"] = Txt(<<0, 8, 0, 4, 4, 2, 9, 5, 7>>) \o <<"X">>

\* C22: on "978-0-439-02352-8 51299" extract_isbn13_from_text returns
\* "9780439023528", and by_isbn called with that text goes on with that
\* ISBN.
C22_HyphenatedWithAddOn ==
    LET text == <<"9", "7", "8", "-", "0", "-", "4", "3", "9", "-",
                  "0", "2", "3", "5", "2", "-", "8", " ", "5", "1", "2", "9", "9">>
    IN  raw = text =>
            /\ extract_isbn13_from_text(strip(raw)) = I1
            /\ pc # "start" => (s = I1 /\ (pc = "done" => calls # <<>>))

(***************************************************************************)
(* The two ISBN extraction functions                                       *)
(***************************************************************************)
\* a checksum-valid 13-digit number outside 978/979
V13 == Txt(<<1, 2, 3, 4, 5, 6, 7, 8, 9, 0, 1, 2, 8>>)

\* the texts the functions are applied to: a 13-digit number (valid under
\* 978, invalid, valid outside 978/979) standing alone, after a letter, a
\* space, a digit or a hyphen, and before a 5-digit add-on, a letter or an
\* underscore; two numbers in one text; the empty text; a hyphenated ISBN
Texts ==
    {b \o n \o a :
        b \in {<<>>, <<"A">>, <<" ">>, <<"1">>, <<"-">>},
        n \in {I1, Ibad, V13},
        a \in {<<>>, <<" ", "5", "1", "2", "9", "9">>, <<"a">>, <<"_">>}}
      \cup {V13 \o <<" ">> \o I1, I2 \o <<" ">> \o I1, Ibad \o <<" ">> \o I2,
            V13 \o <<" ">> \o Ibad, <<>>, HyphenatedI1 \o <<" ", "5", "1", "2", "9", "9">>}

ExtractInit ==
    /\ LookupIdle /\ SearchIdle /\ GbIdle /\ IsbnIdle /\ RepoIdle
    /\ text_arg \in Texts
    /\ extracted = <<>>

\* extract_isbn13_from_text(text_arg) of utils.py
ExtractUtils ==
    /\ "utils" \notin DOMAIN extracted
    /\ extracted' = extracted @@ ("utils" :> extract_isbn13_from_text(text_arg))
    /\ UNCHANGED text_arg
    /\ UNCHANGED <<lookupVars, searchVars, gbVars, isbnVars, repoVars>>

\* _extract_isbn13_from_text(text_arg) of scraper.py
ExtractScraper ==
    /\ "scraper" \notin DOMAIN extracted
    /\ extracted' = extracted @@ ("scraper" :> _extract_isbn13_from_text(text_arg))
    /\ UNCHANGED text_arg
    /\ UNCHANGED <<lookupVars, searchVars, gbVars, isbnVars, repoVars>>

ExtractNext ==
    \/ ExtractUtils
    \/ ExtractScraper

ExtractSpec == ExtractInit /\ [][ExtractNext]_vars

\* the runs of exactly 13 digits of t (no digit before, none after), in text
\* order
Runs13(t) ==
    LET IsRun(i) == /\ \A j \in i..(i + 12) : t[j] \in DigitSet
                    /\ (i = 1 \/ t[i - 1] \notin DigitSet)
                    /\ (i + 12 = Len(t) \/ t[i + 13] \notin DigitSet)
        starts == SelectSeq([i \in 1..(IF Len(t) >= 13 THEN Len(t) - 12 ELSE 0) |-> i], IsRun)
    IN  [k \in 1..Len(starts) |-> SubSeq(t, starts[k], starts[k] + 12)]

\* C23: the extraction returns the first checksum-valid run of 13 digits
\* that starts with 978 or 979 when the text has one, else the first
\* checksum-valid run of 13 digits, and None only when the text has none.
C23_ExtractFirstValid ==
    LET valids == SelectSeq(Runs13(text_arg), ChecksumValid13)
        Is97x(r) == SubSeq(r, 1, 2) = <<"9", "7">> /\ r[3] \in {"8", "9"}
        bookland == SelectSeq(valids, Is97x)
        expected == IF bookland # <<>> THEN bookland[1]
                    ELSE IF valids # <<>> THEN valids[1]
                    ELSE NoneSeq
    IN  \A c \in DOMAIN extracted : extracted[c] = expected

\* the metadata fields of a lookup record (all but isbn and source)
MetadataFields ==
    {"title", "author", "publisher", "language", "page_count", "published_date",
     "thumbnail", "categories", "description"}

AllEmpty(r) == \A k \in MetadataFields \cap DOMAIN r : Falsy(k, r[k])

\* C24: isbndb.by_isbn and openlibrary.by_isbn report no match for a response
\* that lacks the book fields: neither returns a record whose metadata
\* fields are all empty, and by_isbn returns no such record.
C24_MissingFieldsNoMatch ==
    /\ \A i \in 1..Len(calls) :
          (calls[i].fn \in {"isbndb", "openlibrary"} /\ TruthyRec(calls[i].ret))
              => ~AllEmpty(calls[i].ret)
    /\ (pc = "done" /\ TruthyRec(result) /\ result.source \in {"isbndb", "openlibrary"})
          => ~AllEmpty(result)

\* C25: a failing author sub-lookup costs openlibrary.by_isbn that author's
\* name only.  A call that issued two requests or more has fetched the record
\* and has asked for an author: it returns the record, with its title.
C25_AuthorLookupIsolated ==
    [][(/\ Len(calls') = Len(calls) + 1
        /\ calls'[Len(calls')].fn = "openlibrary"
        /\ net' >= net + 2)
          => (/\ TruthyRec(calls'[Len(calls')].ret)
              /\ calls'[Len(calls')].ret.title = "OT")]_vars

\* C26: the ISBN-13 field of every record google_books_search returns
\* passes the check-digit test when it is 13 digits, whatever identifiers
\* the response carried.
C26_RecordIsbnValid ==
    \A k \in 1..Len(gb_out) :
        LET v == gb_out[k].isbn13 IN
        (Len(v) = 13 /\ \A i \in 1..13 : v[i] \in DigitSet) => ChecksumValid13(v)

\* no field of the record r holds None, and its page count is not negative
NoNullField(r) ==
    \A k \in DOMAIN r :
        IF k = "page_count" THEN r[k] # NoneInt /\ r[k] >= 0
        ELSE IF k = "isbn" THEN r[k] # NoneSeq
        ELSE r[k] # NoneStr

\* C27: no field of a record returned by google_books.by_isbn,
\* isbndb.by_isbn or openlibrary.by_isbn, or by services.by_isbn, is None,
\* and page_count is a non-negative integer, whether the response left the
\* field out or carried null for it.
C27_NoNullField ==
    /\ \A i \in 1..Len(calls) :
          (calls[i].fn \in {"google_books", "isbndb", "openlibrary"}
              /\ TruthyRec(calls[i].ret)) => NoNullField(calls[i].ret)
    /\ (pc = "done" /\ TruthyRec(result)) => NoNullField(result)

\* C30: with max_results = 0 search_saxo_by_title scrapes no product page
\* and returns the empty list, and so does search_saxo_by_author, whose
\* limit 0 reaches search_saxo_by_title as 0.
C30_ZeroLimit ==
    max_results = 0 =>
        /\ scraped = <<>>
        /\ (spc \in {"done", "author_done"} => out = <<>>)
        /\ (spc = "author_done" => author_out = <<>>)

(***************************************************************************)
(* Persistence: add_book, delete_ids and the write helpers of              *)
(* src/src/repository.py; add_row, delete_rows and write_df of src/app.py. *)
(* Neither module takes a lock, and every Streamlit session runs the       *)
(* script in a thread of its own, so the steps of two calls interleave at  *)
(* the worksheet requests.                                                 *)
(***************************************************************************)
\* the default of the parameter retries; no caller passes another value
Retries == 5

\* Book.id of a Book built without an id
DefaultId == 0

\* calls the sessions make in all
MaxOps == 3

\* a data row: its id (column index in app.py) and the book it holds, named
\* by the session that added it and the number of that call
Row(id, who, k) == [id |-> id, book |-> <<who, k>>]

InitialSheets == {<<>>, <<Row(1, "init", 1), Row(2, "init", 2)>>}

IdsIn(rows) == {rows[i].id : i \in 1..Len(rows)}

\* next_id, and next_index of app.py: 1 if df.empty else max(id) + 1
next_id(rows) ==
    IF rows = <<>> THEN 1
    ELSE (CHOOSE m \in IdsIn(rows) : \A i \in IdsIn(rows) : i <= m) + 1

\* df[~df["id"].isin(ids)]
Without(rows, ids) ==
    LET Kept(r) == r.id \notin ids IN SelectSeq(rows, Kept)

\* a range write at A1 of the rows vals: the rows below them stay
WrittenAtA1(rows, vals) == vals \o SubSeq(rows, Len(vals) + 1, Len(rows))

\* how a ws.update / ws.append_row call ends: it succeeds, or raises an
\* APIError whose message has "Quota exceeded", or raises another APIError
WriteOutcomes == {"ok", "quota", "error"}

\* the helper's loop body with every APIError retried on a non-final attempt
AfterAttemptAnyError(outcome, a, retries) ==
    IF outcome = "ok" THEN "return"
    ELSE IF a < retries - 1 THEN "sleep"
    ELSE "raise"

\* the body of the loop of _safe_update and _safe_append_row for the
\* attempt a: return on success, sleep and continue on a quota error of a
\* non-final attempt, raise otherwise
AfterAttempt(outcome, a, retries) ==
    IF outcome = "ok" THEN "return"
    ELSE IF outcome = "quota" /\ a < retries - 1 THEN "sleep"
    ELSE "raise"

RepoInit ==
    /\ LookupIdle /\ SearchIdle /\ GbIdle /\ IsbnIdle /\ ExtractIdle
    /\ layer \in {"repository", "app"}
    /\ sheet \in InitialSheets
    /\ rop = [p \in Sessions |-> "none"]
    /\ rpc = [p \in Sessions |-> "idle"]
    /\ nops = [p \in Sessions |-> 0]
    /\ df = [p \in Sessions |-> <<>>]
    /\ book_id = [p \in Sessions |-> 0]
    /\ attempt = [p \in Sessions |-> 0]
    /\ wlog = [p \in Sessions |-> <<>>]
    /\ slept = [p \in Sessions |-> <<>>]

\* the calls started so far
Started == nops["s1"] + nops["s2"]

\* the session p is between calls and there are calls left
CanCall(p) == rpc[p] \in {"idle", "returned", "raised"} /\ Started < MaxOps

\* entering a function: the helper's locals of the call before are gone
Entered(p, fn, at) ==
    /\ rop' = [rop EXCEPT ![p] = fn]
    /\ rpc' = [rpc EXCEPT ![p] = at]
    /\ nops' = [nops EXCEPT ![p] = @ + 1]
    /\ attempt' = [attempt EXCEPT ![p] = 0]
    /\ wlog' = [wlog EXCEPT ![p] = <<>>]
    /\ slept' = [slept EXCEPT ![p] = <<>>]

\* add_book, lines 166-177, for a Book built without an id: read_all, then
\* book.id = next_id(df).  ws.row_count is the height of the grid, 1000 at
\* creation and len(values) >= 1 after write_all's resize, so line 174 is
\* false.
AddBookRead(p) ==
    /\ layer = "repository" /\ CanCall(p)
    /\ Entered(p, "add_book", "append")
    /\ df' = [df EXCEPT ![p] = sheet]
    /\ book_id' = [book_id EXCEPT ![p] = IF DefaultId = 0 THEN next_id(sheet) ELSE DefaultId]
    /\ UNCHANGED <<layer, sheet>>
    /\ UNCHANGED <<lookupVars, searchVars, gbVars, isbnVars, extractVars>>

\* one turn of the loop of _safe_append_row, lines 102-110
SafeAppendRow(p) ==
    /\ rpc[p] = "append" /\ attempt[p] < Retries
    /\ \E o \in WriteOutcomes :
        LET then == AfterAttempt(o, attempt[p], Retries) IN
        /\ wlog' = [wlog EXCEPT ![p] = Append(@, o)]
        /\ sheet' = IF then = "return"
                    THEN Append(sheet, Row(book_id[p], p, nops[p]))
                    ELSE sheet
        /\ rpc' = [rpc EXCEPT ![p] = IF then = "return" THEN "returned"
                                     ELSE IF then = "raise" THEN "raised" ELSE @]
        /\ slept' = [slept EXCEPT ![p] = IF then = "sleep"
                                         THEN Append(@, 2 ^ attempt[p]) ELSE @]
        /\ attempt' = [attempt EXCEPT ![p] = IF then = "sleep" THEN @ + 1 ELSE @]
    /\ UNCHANGED <<layer, rop, nops, df, book_id>>
    /\ UNCHANGED <<lookupVars, searchVars, gbVars, isbnVars, extractVars>>

\* delete_ids, lines 184-185, and write_all up to its resize
DeleteIdsRead(p) ==
    /\ layer = "repository" /\ CanCall(p)
    /\ \E i \in IdsIn(sheet) \cup {1} :
          df' = [df EXCEPT ![p] = Without(sheet, {i})]
    /\ Entered(p, "delete_ids", "resize")
    /\ UNCHANGED <<layer, sheet, book_id>>
    /\ UNCHANGED <<lookupVars, searchVars, gbVars, isbnVars, extractVars>>

\* write_all, lines 152-156: ws.resize cuts the grid to the rows of values,
\* or raises an APIError that is dropped
Resize(p) ==
    /\ rpc[p] = "resize"
    /\ \E ok \in BOOLEAN :
          sheet' = IF ok /\ Len(df[p]) < Len(sheet)
                   THEN SubSeq(sheet, 1, Len(df[p])) ELSE sheet
    /\ rpc' = [rpc EXCEPT ![p] = "update"]
    /\ UNCHANGED <<layer, rop, nops, df, book_id, attempt, wlog, slept>>
    /\ UNCHANGED <<lookupVars, searchVars, gbVars, isbnVars, extractVars>>

\* one turn of the loop of _safe_update, lines 89-97, called by write_all
\* at line 157 with range 'A1'
SafeUpdate(p) ==
    /\ rpc[p] = "update" /\ attempt[p] < Retries
    /\ \E o \in WriteOutcomes :
        LET then == AfterAttempt(o, attempt[p], Retries) IN
        /\ wlog' = [wlog EXCEPT ![p] = Append(@, o)]
        /\ sheet' = IF then = "return" THEN WrittenAtA1(sheet, df[p]) ELSE sheet
        /\ rpc' = [rpc EXCEPT ![p] = IF then = "return" THEN "returned"
                                     ELSE IF then = "raise" THEN "raised" ELSE @]
        /\ slept' = [slept EXCEPT ![p] = IF then = "sleep"
                                         THEN Append(@, 2 ^ attempt[p]) ELSE @]
        /\ attempt' = [attempt EXCEPT ![p] = IF then = "sleep" THEN @ + 1 ELSE @]
    /\ UNCHANGED <<layer, rop, nops, df, book_id>>
    /\ UNCHANGED <<lookupVars, searchVars, gbVars, isbnVars, extractVars>>

\* add_row of app.py, lines 221-236: read_df, row.setdefault("index",
\* next_index(df)), pd.concat
AddRowRead(p) ==
    /\ layer = "app" /\ CanCall(p)
    /\ Entered(p, "add_row", "clear")
    /\ book_id' = [book_id EXCEPT ![p] = next_id(sheet)]
    /\ df' = [df EXCEPT ![p] = Append(sheet, Row(next_id(sheet), p, nops[p] + 1))]
    /\ UNCHANGED <<layer, sheet>>
    /\ UNCHANGED <<lookupVars, searchVars, gbVars, isbnVars, extractVars>>

\* delete_rows of app.py, lines 240-241
DeleteRowsRead(p) ==
    /\ layer = "app" /\ CanCall(p)
    /\ \E i \in IdsIn(sheet) \cup {1} :
          df' = [df EXCEPT ![p] = Without(sheet, {i})]
    /\ Entered(p, "delete_rows", "clear")
    /\ UNCHANGED <<layer, sheet, book_id>>
    /\ UNCHANGED <<lookupVars, searchVars, gbVars, isbnVars, extractVars>>

\* write_df, line 214: ws.clear() empties every cell, or raises
Clear(p) ==
    /\ rpc[p] = "clear"
    /\ \E ok \in BOOLEAN :
          /\ sheet' = IF ok THEN <<>> ELSE sheet
          /\ rpc' = [rpc EXCEPT ![p] = IF ok THEN "set" ELSE "raised"]
    /\ UNCHANGED <<layer, rop, nops, df, book_id, attempt, wlog, slept>>
    /\ UNCHANGED <<lookupVars, searchVars, gbVars, isbnVars, extractVars>>

\* write_df, line 215: set_with_dataframe writes df from A1 down, or raises
SetWithDataframe(p) ==
    /\ rpc[p] = "set"
    /\ \E ok \in BOOLEAN :
          /\ sheet' = IF ok THEN WrittenAtA1(sheet, df[p]) ELSE sheet
          /\ rpc' = [rpc EXCEPT ![p] = IF ok THEN "returned" ELSE "raised"]
    /\ UNCHANGED <<layer, rop, nops, df, book_id, attempt, wlog, slept>>
    /\ UNCHANGED <<lookupVars, searchVars, gbVars, isbnVars, extractVars>>

RepoNext ==
    \/ \E p \in Sessions : AddBookRead(p)
    \/ \E p \in Sessions : SafeAppendRow(p)
    \/ \E p \in Sessions : DeleteIdsRead(p)
    \/ \E p \in Sessions : Resize(p)
    \/ \E p \in Sessions : SafeUpdate(p)
    \/ \E p \in Sessions : AddRowRead(p)
    \/ \E p \in Sessions : DeleteRowsRead(p)
    \/ \E p \in Sessions : Clear(p)
    \/ \E p \in Sessions : SetWithDataframe(p)

RepoSpec == RepoInit /\ [][RepoNext]_vars

\* the calls of p's running or latest write helper that ended as o
CountOf(p, o) == Cardinality({k \in 1..Len(wlog[p]) : wlog[p][k] = o})

\* C28: a call of _safe_update or _safe_append_row makes at most retries
\* attempts.  Every attempt before the latest met a quota error and was
\* followed by a sleep of 2^attempt seconds; the call goes on only after
\* such an attempt.  A success returns at once, with that one write made;
\* another APIError, or a quota error on the last attempt, raises at once,
\* with no write made.
C28_BoundedBackoff ==
    \A p \in Sessions :
        LET n == Len(wlog[p]) IN
        /\ n <= Retries
        /\ \A k \in 1..(n - 1) : wlog[p][k] = "quota"
        /\ rpc[p] \in {"update", "append"} =>
              /\ \A k \in 1..n : wlog[p][k] = "quota"
              /\ n < Retries
              /\ slept[p] = [k \in 1..n |-> 2 ^ (k - 1)]
        /\ n > 0 =>
              /\ wlog[p][n] = "ok" =>
                    /\ rpc[p] = "returned"
                    /\ slept[p] = [k \in 1..(n - 1) |-> 2 ^ (k - 1)]
              /\ wlog[p][n] = "error" =>
                    /\ rpc[p] = "raised"
                    /\ slept[p] = [k \in 1..(n - 1) |-> 2 ^ (k - 1)]
              /\ (wlog[p][n] = "quota" /\ n = Retries) =>
                    /\ rpc[p] = "raised"
                    /\ slept[p] = [k \in 1..(n - 1) |-> 2 ^ (k - 1)]
        /\ (rpc[p] = "returned" /\ rop[p] \in {"add_book", "delete_ids"}) =>
              CountOf(p, "ok") = 1
        /\ (rpc[p] = "raised" /\ rop[p] \in {"add_book", "delete_ids"}) =>
              CountOf(p, "ok") = 0

\* a helper call that returned after two quota errors and sleeps of 1 s and
\* 2 s, and another that raised on the quota error of its fifth attempt
C28_Witness ==
    /\ rpc["s1"] = "returned"
    /\ wlog["s1"] = <<"quota", "quota", "ok">>
    /\ slept["s1"] = <<1, 2>>
    /\ rpc["s2"] = "raised"
    /\ wlog["s2"] = <<"quota", "quota", "quota", "quota", "quota">>
    /\ slept["s2"] = <<1, 2, 4, 8>>

\* C29: when the sessions have called nothing but one add each, the ids of
\* the stored rows are pairwise distinct and the row of every add that
\* returned is in the sheet, however the reads and writes of the two calls
\* interleave.
C29_InterleavedAdds ==
    (\A q \in Sessions : rop[q] \in {"none", "add_book", "add_row"} /\ nops[q] <= 1) =>
        /\ \A i, j \in 1..Len(sheet) : i # j => sheet[i].id # sheet[j].id
        /\ \A p \in Sessions :
              rpc[p] = "returned" => \E i \in 1..Len(sheet) : sheet[i].book = <<p, 1>>

====
